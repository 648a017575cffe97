---------------------------- MODULE ServerProofs ----------------------------
(***************************************************************************)
(* Proofs about the handlers, the engine they run, the queries on what it  *)
(* leaves and the imports, for any metadata, requests and data.            *)
(***************************************************************************)
EXTENDS Staging, EngineProofs

-----------------------------------------------------------------------------
(* Processed after import.                                                 *)

\* Only a "process" leads to Processed, and only from there to Certified.
LEMMA TransitionFacts ==
  ASSUME NEW s, NEW a \in Actions, Allowed(s, a)
  PROVE  /\ Target(a) = "Processed" => a = "process"
         /\ Target(a) = "Certified" => s = "Processed"
  BY DEF Actions, Allowed, Target

\* Forgetting units resets them, and leaves the others alone.
LEMMA ForgottenFacts ==
  ASSUME NEW us, NEW u, status' = Forgotten(us)
  PROVE  StatusOf(u)' = IF u \in us THEN "NotStarted" ELSE StatusOf(u)
  BY DEF Forgotten, Restricted, StatusOf

\* An action on some units moves them, and leaves the others alone.
LEMMA TrackedFacts ==
  ASSUME NEW us, NEW u, NEW a, status' = Tracked(us, a)
  PROVE  StatusOf(u)' = IF u \in us THEN Target(a) ELSE StatusOf(u)
  BY DEF Tracked, StatusOf

\* A commit takes its units back to Imported.
LEMMA CommitIsSeen ==
  ASSUME ProcessedAfterImport, NEW rows, ImportCommit(rows)
  PROVE  ProcessedAfterImport'
<1> DEFINE planned == {RowUnit(rows[i]) : i \in CleanRows(rows)}
<1>1. status' = Tracked(planned, "import") /\ stale' = stale \cup planned
  BY DEF ImportCommit, TrackedImport
<1> HIDE DEF planned
<1>2. \A u : StatusOf(u)' = IF u \in planned THEN "Imported" ELSE StatusOf(u)
  BY <1>1, TrackedFacts DEF Target
<1> QED BY <1>1, <1>2 DEF ProcessedAfterImport, UnitKeys

LEMMA ProcessedAfterImportStep ==
  ASSUME ProcessedAfterImport, [Next]_vars
  PROVE  ProcessedAfterImport'
<1> SUFFICES ASSUME NEW u \in UnitKeys, StatusOf(u)' \in {"Processed", "Certified"}
             PROVE  u \notin stale'
  BY DEF ProcessedAfterImport, UnitKeys
<1>a. StatusOf(u) \in {"Processed", "Certified"} => u \notin stale
  BY DEF ProcessedAfterImport
<1>b. ASSUME status' = status, stale' = stale PROVE u \notin stale'
  BY <1>a, <1>b DEF StatusOf
<1>1. ASSUME NEW batch \in Lists(Writes, MaxBatch), DataCells(batch)
      PROVE  u \notin stale'
  BY <1>1, <1>b DEF DataCells
<1>2. ASSUME NEW rows \in Lists(Rows, MaxRows), ImportCommit(rows)
      PROVE  u \notin stale'
  BY <1>2, CommitIsSeen DEF ProcessedAfterImport
<1>3. ASSUME NEW s \in Slices, ManualProcess(s)
      PROVE  u \notin stale'
  BY <1>3, <1>a DEF ManualProcess, RunProcess, StatusOf
<1>4. ASSUME NEW s \in Slices, NEW e \in FlowEntities, NEW a \in Actions, WorkflowAction(s, e, a)
      PROVE  u \notin stale'
  <2>1. status' = Tracked({<<s, e>>}, a) /\ Allowed(StatusOf(<<s, e>>), a)
    BY <1>4 DEF WorkflowAction
  <2>2. StatusOf(u)' = IF u = <<s, e>> THEN Target(a) ELSE StatusOf(u)
    BY <2>1, TrackedFacts
  <2>3. IF a = "process" THEN stale' = stale \ ({s} \X Entities) ELSE stale' = stale
    BY <1>4 DEF WorkflowAction, RunProcess
  <2>4. CASE u = <<s, e>> /\ a = "process"
    BY <2>3, <2>4 DEF UnitKeys
  <2>5. CASE u = <<s, e>> /\ a # "process"
    <3>1. StatusOf(u) = "Processed"
      BY <2>1, <2>2, <2>5, TransitionFacts
    <3> QED BY <3>1, <2>3, <2>5, <1>a
  <2>6. CASE u # <<s, e>>
    BY <2>2, <2>3, <2>6, <1>a
  <2> QED BY <2>4, <2>5, <2>6
<1>5. CASE EntityStep
  <2>1. ASSUME NEW x \in EditEntities, NEW p \in Entities \cup {NoParent},
               AddEntity(x, p) \/ MoveEntity(x, p)
        PROVE  u \notin stale'
    BY <2>1, <1>b DEF AddEntity, MoveEntity
  <2>2. ASSUME NEW x \in EditEntities, NEW recursive \in BOOLEAN, DeleteEntity(x, recursive)
        PROVE  u \notin stale'
    <3> DEFINE us == Slices \X Subtree(ent, x)
    <3>1. status' = Forgotten(us) /\ stale' = stale \ us
      BY <2>2 DEF DeleteEntity
    <3> HIDE DEF us
    <3> QED BY <3>1, <1>a, ForgottenFacts
  <2> QED BY <1>5, <2>1, <2>2 DEF EntityStep
<1>6. CASE AccountStep
  <2>1. status' = status /\ stale' = stale
    BY <1>6 DEF AccountStep, AddAccount, UpdateAccount, DeleteAccount
  <2> QED BY <2>1, <1>b
<1>7. CASE FormulaStep
  BY <1>7, <1>b DEF FormulaStep, FormulaPut
<1>8. CASE ScenarioStep
  <2>1. ASSUME NEW sc \in EditScenarios, AddScenario(sc)
        PROVE  u \notin stale'
    BY <2>1, <1>b DEF AddScenario
  <2>2. ASSUME NEW sc \in EditScenarios, DeleteScenario(sc)
        PROVE  u \notin stale'
    <3> DEFINE us == SlicesOf(sc) \X Entities
    <3>1. status' = Forgotten(us) /\ stale' = stale \ us
      BY <2>2 DEF DeleteScenario
    <3> HIDE DEF us
    <3> QED BY <3>1, <1>a, ForgottenFacts
  <2> QED BY <1>8, <2>1, <2>2 DEF ScenarioStep
<1>9. CASE RatesStep
  BY <1>9, <1>b DEF RatesStep, RatesPut
<1>10. CASE UNCHANGED vars
  BY <1>10, <1>b DEF vars
<1> QED
  BY <1>1, <1>2, <1>3, <1>4, <1>5, <1>6, <1>7, <1>8, <1>9, <1>10 DEF Next, DataStep, FlowStep

(* A unit counts as processed or certified only if its slice was           *)
(* consolidated after its last import, whatever was deleted in between.    *)
THEOREM NothingUnseenIsCertified == Spec => []ProcessedAfterImport
<1>1. Init => ProcessedAfterImport
  BY DEF Init, ProcessedAfterImport, StatusOf
<1>2. ProcessedAfterImport /\ [Next]_vars => ProcessedAfterImport'
  BY ProcessedAfterImportStep
<1> QED BY <1>1, <1>2, PTL DEF Spec

-----------------------------------------------------------------------------
(* Stored formulas stay at leaves.                                         *)

\* The account tree is a finite tree: a name that comes back after a removal
\* finds no children waiting for it.
AccInv == /\ IsFiniteSet(DOMAIN acc) /\ Closed(acc)
          /\ DOMAIN expr \subseteq DOMAIN acc

LeafInv == AccInv /\ StoredFormulasAtLeaves

\* Which accounts have a stored formula after f and d were put on one.
LEMMA WithFormulaFacts ==
  ASSUME NEW x, NEW f, NEW d \in BOOLEAN,
         expr' = WithFormula(x, f), dynamic' = WithDynamic(x, d) \/ (f = NoExpr /\ dynamic' = WithDynamic(x, FALSE))
  PROVE  /\ DOMAIN expr' \subseteq DOMAIN expr \cup {x}
         /\ StoredFormula(x)' => f # NoExpr /\ ~d
         /\ \A a : a # x => (StoredFormula(a)' <=> StoredFormula(a))
<1>1. \A a : a # x => (a \in DOMAIN expr' <=> a \in DOMAIN expr)
  BY DEF WithFormula, Restricted
<1>2. \A a : a # x => (a \in dynamic' <=> a \in dynamic)
  BY DEF WithDynamic
<1>3. x \in DOMAIN expr' => f # NoExpr
  BY DEF WithFormula, Restricted
<1>4. f # NoExpr /\ d => x \in dynamic'
  BY DEF WithDynamic
<1> QED BY <1>1, <1>2, <1>3, <1>4 DEF StoredFormula

\* Hanging x under p, new or not, keeps the tree; a leaf other than p stays
\* one, and so does x itself.
LEMMA HangFacts ==
  ASSUME AccInv, NEW x \in EditAccounts, NEW p,
         acc' = [y \in DOMAIN acc \cup {x} |-> IF y = x THEN p ELSE acc[y]],
         p = NoParent \/ p \in DOMAIN acc \ {x} \/ (x \in DOMAIN acc /\ p = acc[x])
  PROVE  /\ IsFiniteSet(DOMAIN acc') /\ Closed(acc')
         /\ \A a : IsLeaf(acc, a) /\ (a # p \/ (x \in DOMAIN acc /\ p = acc[x])) => IsLeaf(acc', a)
         /\ x \notin DOMAIN acc => IsLeaf(acc', x)
<1>1. IsFiniteSet(DOMAIN acc')
  BY FS_AddElement DEF AccInv
<1>2. Closed(acc')
  BY DEF AccInv, Closed
<1>3. ASSUME NEW a, IsLeaf(acc, a), a # p \/ (x \in DOMAIN acc /\ p = acc[x])
      PROVE  IsLeaf(acc', a)
  <2>1. a \in DOMAIN acc /\ \A c \in DOMAIN acc : acc[c] # a
    BY <1>3 DEF IsLeaf, Has, Children
  <2>2. \A c \in DOMAIN acc' : acc'[c] # a
    BY <1>3, <2>1
  <2> QED BY <2>1, <2>2 DEF IsLeaf, Has, Children
<1>4. ASSUME x \notin DOMAIN acc
      PROVE  IsLeaf(acc', x)
  <2>1. x # NoParent
    BY MetadataAssumption
  <2>2. \A c \in DOMAIN acc : acc[c] # x
    BY <1>4, <2>1 DEF AccInv, Closed
  <2>3. \A c \in DOMAIN acc' : acc'[c] # x
    BY <1>4, <2>1, <2>2
  <2> QED BY <2>3 DEF IsLeaf, Has, Children
<1> QED BY <1>1, <1>2, <1>3, <1>4

LEMMA AddAccountKeepsLeaves ==
  ASSUME LeafInv, NEW x \in EditAccounts, NEW p, NEW f, NEW d \in BOOLEAN, AddAccount(x, p, f, d)
  PROVE  LeafInv'
<1>1. /\ x \notin DOMAIN acc /\ (p = NoParent \/ p \in DOMAIN acc) /\ ~StoredFormula(p)
      /\ acc' = [y \in DOMAIN acc \cup {x} |-> IF y = x THEN p ELSE acc[y]]
      /\ expr' = WithFormula(x, f) /\ dynamic' = WithDynamic(x, d)
  BY DEF AddAccount, CanAdd, Has, MayHaveChildren, Added
<1>2. /\ IsFiniteSet(DOMAIN acc') /\ Closed(acc')
      /\ \A a : IsLeaf(acc, a) /\ a # p => IsLeaf(acc', a)
      /\ IsLeaf(acc', x)
  <2>1. p = NoParent \/ p \in DOMAIN acc \ {x}
    BY <1>1
  <2> QED BY <1>1, <2>1, HangFacts DEF LeafInv
<1>3. /\ DOMAIN expr' \subseteq DOMAIN expr \cup {x}
      /\ \A a : a # x => (StoredFormula(a)' <=> StoredFormula(a))
  BY <1>1, WithFormulaFacts
<1>4. AccInv'
  BY <1>1, <1>2, <1>3 DEF LeafInv, AccInv
<1>5. ASSUME NEW a \in DOMAIN expr', StoredFormula(a)'
      PROVE  IsLeaf(acc', a)
  <2>1. CASE a = x
    BY <1>2, <2>1
  <2>2. CASE a # x
    <3>1. StoredFormula(a) /\ a # p
      BY <1>1, <1>3, <1>5, <2>2
    <3>2. IsLeaf(acc, a)
      BY <3>1 DEF LeafInv, StoredFormulasAtLeaves, StoredFormula
    <3> QED BY <1>2, <3>1, <3>2
  <2> QED BY <2>1, <2>2
<1>6. StoredFormulasAtLeaves'
  BY <1>5 DEF StoredFormulasAtLeaves
<1> QED BY <1>4, <1>6 DEF LeafInv

LEMMA UpdateAccountKeepsLeaves ==
  ASSUME LeafInv, NEW x \in EditAccounts, NEW p, NEW f, NEW d \in BOOLEAN, UpdateAccount(x, p, f, d)
  PROVE  LeafInv'
<1>1. /\ x \in DOMAIN acc
      /\ f # NoExpr /\ ~d => IsLeaf(acc, x)
      /\ p # acc[x] => (p = NoParent \/ p \in DOMAIN acc \ {x}) /\ ~StoredFormula(p)
      /\ acc' = [acc EXCEPT ![x] = p]
      /\ expr' = WithFormula(x, f) /\ dynamic' = WithDynamic(x, d)
  BY DEF UpdateAccount, CanMove, Has, MayHaveChildren, Moved
<1>2. acc' = [y \in DOMAIN acc \cup {x} |-> IF y = x THEN p ELSE acc[y]]
  BY <1>1
<1>3. /\ IsFiniteSet(DOMAIN acc') /\ Closed(acc')
      /\ \A a : IsLeaf(acc, a) /\ (a # p \/ p = acc[x]) => IsLeaf(acc', a)
  <2>1. p = NoParent \/ p \in DOMAIN acc \ {x} \/ (x \in DOMAIN acc /\ p = acc[x])
    BY <1>1
  <2>2. AccInv
    BY DEF LeafInv
  <2>3. /\ IsFiniteSet(DOMAIN acc') /\ Closed(acc')
        /\ \A a : IsLeaf(acc, a) /\ (a # p \/ (x \in DOMAIN acc /\ p = acc[x])) => IsLeaf(acc', a)
    BY <1>2, <2>1, <2>2, HangFacts
  <2> QED BY <1>1, <2>3
<1>4. /\ DOMAIN expr' \subseteq DOMAIN expr \cup {x}
      /\ StoredFormula(x)' => f # NoExpr /\ ~d
      /\ \A a : a # x => (StoredFormula(a)' <=> StoredFormula(a))
  BY <1>1, WithFormulaFacts
<1>5. AccInv'
  BY <1>1, <1>2, <1>3, <1>4 DEF LeafInv, AccInv
<1>6. ASSUME NEW a \in DOMAIN expr', StoredFormula(a)'
      PROVE  IsLeaf(acc', a)
  <2>1. CASE a = x
    <3>1. IsLeaf(acc, x)
      BY <1>1, <1>4, <1>6, <2>1
    <3>2. x # p \/ p = acc[x]
      <4>1. x # NoParent
        BY MetadataAssumption
      <4> QED BY <1>1, <4>1
    <3> QED BY <1>3, <2>1, <3>1, <3>2
  <2>2. CASE a # x
    <3>1. StoredFormula(a) /\ (a # p \/ p = acc[x])
      BY <1>1, <1>4, <1>6, <2>2
    <3>2. IsLeaf(acc, a)
      BY <3>1 DEF LeafInv, StoredFormulasAtLeaves, StoredFormula
    <3> QED BY <1>3, <3>1, <3>2
  <2> QED BY <2>1, <2>2
<1>7. StoredFormulasAtLeaves'
  BY <1>6 DEF StoredFormulasAtLeaves
<1> QED BY <1>5, <1>7 DEF LeafInv

LEMMA FormulaPutKeepsLeaves ==
  ASSUME LeafInv, NEW x, NEW f, NEW d \in BOOLEAN, FormulaPut(x, f, d)
  PROVE  LeafInv'
<1>1. /\ x \in DOMAIN acc /\ acc' = acc
      /\ f # NoExpr /\ ~d => IsLeaf(acc, x)
      /\ expr' = WithFormula(x, f)
      /\ dynamic' = WithDynamic(x, d) \/ (f = NoExpr /\ dynamic' = WithDynamic(x, FALSE))
  BY DEF FormulaPut, Has, WithDynamic
<1>2. /\ DOMAIN expr' \subseteq DOMAIN expr \cup {x}
      /\ StoredFormula(x)' => f # NoExpr /\ ~d
      /\ \A a : a # x => (StoredFormula(a)' <=> StoredFormula(a))
  BY <1>1, WithFormulaFacts
<1>3. AccInv'
  BY <1>1, <1>2 DEF LeafInv, AccInv
<1>4. StoredFormulasAtLeaves'
  BY <1>1, <1>2 DEF LeafInv, StoredFormulasAtLeaves, StoredFormula
<1> QED BY <1>3, <1>4 DEF LeafInv

LEMMA DeleteAccountKeepsLeaves ==
  ASSUME LeafInv, NEW x, NEW recursive, DeleteAccount(x, recursive)
  PROVE  LeafInv'
<1> DEFINE doomed == Subtree(acc, x)
<1>1. /\ acc' = [y \in DOMAIN acc \ doomed |-> acc[y]]
      /\ DOMAIN expr' = DOMAIN expr \ doomed
      /\ dynamic' = dynamic \ doomed
  BY DEF DeleteAccount, Restricted
<1>2. \A y \in DOMAIN acc \ doomed : acc[y] = NoParent \/ acc[y] \in DOMAIN acc \ doomed
  BY RemovalLeavesATree DEF LeafInv, AccInv
<1> HIDE DEF doomed
<1>3. IsFiniteSet(DOMAIN acc') /\ Closed(acc')
  <2>1. IsFiniteSet(DOMAIN acc \ doomed)
    BY FS_Difference DEF LeafInv, AccInv
  <2> QED BY <1>1, <1>2, <2>1 DEF Closed
<1>4. AccInv'
  BY <1>1, <1>3 DEF LeafInv, AccInv
<1>5. ASSUME NEW a \in DOMAIN expr', StoredFormula(a)'
      PROVE  IsLeaf(acc', a)
  <2>1. a \in DOMAIN expr /\ a \notin doomed /\ StoredFormula(a)
    BY <1>1, <1>5 DEF StoredFormula
  <2>2. a \in DOMAIN acc /\ \A c \in DOMAIN acc : acc[c] # a
    BY <2>1 DEF LeafInv, StoredFormulasAtLeaves, IsLeaf, Has, Children
  <2> QED BY <1>1, <2>1, <2>2 DEF IsLeaf, Has, Children
<1>6. StoredFormulasAtLeaves'
  BY <1>5 DEF StoredFormulasAtLeaves
<1> QED BY <1>4, <1>6 DEF LeafInv

\* Every other request leaves accounts and formulas alone.
LEMMA OthersKeepLeaves ==
  ASSUME LeafInv, UNCHANGED <<acc, expr, dynamic>>
  PROVE  LeafInv'
  BY DEF LeafInv, AccInv, StoredFormulasAtLeaves, StoredFormula

LEMMA LeafInvInit == Init => LeafInv
<1> SUFFICES ASSUME Init PROVE LeafInv
  OBVIOUS
<1>1. acc = InitAcc /\ expr = InitExpr
  BY DEF Init
<1>2. \A a \in DOMAIN expr : IsLeaf(acc, a)
  BY <1>1, MetadataAssumption
<1>3. DOMAIN expr \subseteq DOMAIN acc
  BY <1>2 DEF IsLeaf, Has
<1> QED BY <1>1, <1>2, <1>3, MetadataAssumption DEF LeafInv, AccInv, Closed, StoredFormulasAtLeaves

LEMMA LeafInvStep == LeafInv /\ [Next]_vars => LeafInv'
<1> SUFFICES ASSUME LeafInv, [Next]_vars PROVE LeafInv'
  OBVIOUS
<1>1. CASE DataStep
  BY <1>1, OthersKeepLeaves DEF DataStep, DataCells, ImportCommit, metaVars
<1>2. CASE FlowStep
  BY <1>2, OthersKeepLeaves DEF FlowStep, ManualProcess, WorkflowAction, metaVars
<1>3. CASE EntityStep
  BY <1>3, OthersKeepLeaves DEF EntityStep, AddEntity, MoveEntity, DeleteEntity
<1>4. CASE AccountStep
  BY <1>4, AddAccountKeepsLeaves, UpdateAccountKeepsLeaves, DeleteAccountKeepsLeaves DEF AccountStep
<1>5. CASE FormulaStep
  BY <1>5, FormulaPutKeepsLeaves DEF FormulaStep
<1>6. CASE ScenarioStep
  BY <1>6, OthersKeepLeaves DEF ScenarioStep, AddScenario, DeleteScenario
<1>7. CASE RatesStep
  BY <1>7, OthersKeepLeaves DEF RatesStep, RatesPut
<1>8. CASE UNCHANGED vars
  BY <1>8, OthersKeepLeaves DEF vars
<1> QED BY <1>1, <1>2, <1>3, <1>4, <1>5, <1>6, <1>7, <1>8 DEF Next

(* dims.go keeps every stored formula on a leaf account through additions, *)
(* moves, removals and formula edits in any order, so that Process never   *)
(* refuses a slice for it.                                                 *)
THEOREM FormulasStayAtLeaves == Spec => []StoredFormulasAtLeaves
<1>1. LeafInv => StoredFormulasAtLeaves
  BY DEF LeafInv
<1> QED BY <1>1, LeafInvInit, LeafInvStep, PTL DEF Spec

-----------------------------------------------------------------------------
(* User data survives edits.                                               *)

\* A purge takes no cell of Input ...
LEMMA PurgedKeepsInput ==
  ASSUME NEW u, NEW naming
  PROVE  /\ UserCells(Purged(u, naming)["Input"]) = UserCells(u["Input"])
         /\ NonZero(u["Input"]) => NonZero(Purged(u, naming)["Input"])
         /\ "Input" \in DOMAIN Purged(u, naming)
<1>1. Purged(u, naming)["Input"] = [c \in DOMAIN u["Input"] |-> u["Input"][c]]
  BY DEF Purged, Stages
<1>2. "Input" \in DOMAIN Purged(u, naming)
  BY DEF Purged, Stages
<1> QED BY <1>1, <1>2 DEF UserCells, NonZero

\* ... and a unit that goes as a whole has none.
LEMMA NothingLost ==
  ASSUME NEW u, \A c \in DOMAIN u["Input"] : FALSE
  PROVE  /\ UserCells(NoUnit["Input"]) = UserCells(u["Input"])
         /\ NonZero(NoUnit["Input"])
         /\ "Input" \in DOMAIN NoUnit
<1>1. NoUnit["Input"] = Empty /\ "Input" \in DOMAIN NoUnit
  BY DEF NoUnit, Stages
<1>2. DOMAIN u["Input"] = {} /\ DOMAIN Empty = {}
  BY DEF Empty
<1> QED BY <1>1, <1>2 DEF UserCells, NonZero

\* A deletion is refused while Input refers to the doomed members, and takes
\* nothing else from Input.
LEMMA DeletionsKeepInput ==
  ASSUME NEW x,
         \/ \E recursive : DeleteEntity(x, recursive) \/ DeleteAccount(x, recursive)
         \/ DeleteScenario(x),
         NEW s \in Slices, NEW e \in Entities
  PROVE  /\ UserCells(units'[s][e]["Input"]) = UserCells(units[s][e]["Input"])
         /\ NonZero(units[s][e]["Input"]) => NonZero(units'[s][e]["Input"])
         /\ "Input" \in DOMAIN units[s][e] => "Input" \in DOMAIN units'[s][e]
<1>1. ASSUME NEW recursive, DeleteEntity(x, recursive)
      PROVE  \/ units'[s][e] = NoUnit /\ \A c \in DOMAIN units[s][e]["Input"] : FALSE
             \/ \E naming : units'[s][e] = Purged(units[s][e], naming)
  <2> DEFINE doomed == Subtree(ent, x)
  <2>1. /\ ~EntityInUse(doomed)
        /\ units' = [z \in Slices |-> [y \in Entities |->
                       IF y \in doomed THEN NoUnit
                       ELSE Purged(units[z][y], {c \in Coords : c.ic \in doomed})]]
    BY <1>1 DEF DeleteEntity
  <2> HIDE DEF doomed
  <2>2. CASE e \in doomed
    BY <2>1, <2>2 DEF EntityInUse
  <2>3. CASE e \notin doomed
    BY <2>1, <2>3
  <2> QED BY <2>2, <2>3
<1>2. ASSUME NEW recursive, DeleteAccount(x, recursive)
      PROVE  \E naming : units'[s][e] = Purged(units[s][e], naming)
  <2> DEFINE naming == {c \in Coords : c.acct \in Subtree(acc, x)}
  <2>1. units' = [z \in Slices |-> [y \in Entities |-> Purged(units[z][y], naming)]]
    BY <1>2 DEF DeleteAccount
  <2> HIDE DEF naming
  <2> QED BY <2>1
<1>3. ASSUME DeleteScenario(x)
      PROVE  \/ units'[s][e] = NoUnit /\ \A c \in DOMAIN units[s][e]["Input"] : FALSE
             \/ units'[s][e] = units[s][e]
  <2> DEFINE doomed == SlicesOf(x)
  <2>1. /\ \A z \in doomed, y \in Entities : units[z][y]["Input"] = Empty
        /\ units' = [z \in Slices |-> IF z \in doomed THEN [y \in Entities |-> NoUnit] ELSE units[z]]
    BY <1>3 DEF DeleteScenario
  <2> HIDE DEF doomed
  <2>2. CASE s \in doomed
    BY <2>1, <2>2 DEF Empty
  <2>3. CASE s \notin doomed
    BY <2>1, <2>3
  <2> QED BY <2>2, <2>3
<1>4. CASE units'[s][e] = NoUnit /\ \A c \in DOMAIN units[s][e]["Input"] : FALSE
  <2> DEFINE u == units[s][e]
  <2>1. \A c \in DOMAIN u["Input"] : FALSE
    BY <1>4
  <2> HIDE DEF u
  <2>2. /\ UserCells(NoUnit["Input"]) = UserCells(u["Input"])
        /\ NonZero(NoUnit["Input"])
        /\ "Input" \in DOMAIN NoUnit
    BY <2>1, NothingLost
  <2> QED BY <1>4, <2>2 DEF u
<1>5. ASSUME NEW naming, units'[s][e] = Purged(units[s][e], naming)
      PROVE  /\ UserCells(units'[s][e]["Input"]) = UserCells(units[s][e]["Input"])
             /\ NonZero(units[s][e]["Input"]) => NonZero(units'[s][e]["Input"])
             /\ "Input" \in DOMAIN units'[s][e]
  BY <1>5, PurgedKeepsInput
<1>6. CASE units'[s][e] = units[s][e]
  BY <1>6
<1> QED BY <1>1, <1>2, <1>3, <1>4, <1>5, <1>6

Survives == metaVars' # metaVars => \A u \in UnitKeys : UserInput(units', u) = UserInput(units, u)

LEMMA EditsKeepInput == [Next]_vars => Survives
<1> SUFFICES ASSUME [Next]_vars PROVE Survives
  OBVIOUS
<1> USE DEF Survives
<1>1. CASE units' = units
  BY <1>1 DEF UserInput
<1>2. CASE UNCHANGED metaVars
  BY <1>2
<1>3. ASSUME NEW x,
             \/ \E recursive : DeleteEntity(x, recursive) \/ DeleteAccount(x, recursive)
             \/ DeleteScenario(x)
      PROVE  Survives
  <2>1. ASSUME NEW s \in Slices, NEW e \in Entities
        PROVE  UserInput(units', <<s, e>>) = UserInput(units, <<s, e>>)
    BY <1>3, DeletionsKeepInput DEF UserInput
  <2> QED BY <2>1 DEF UnitKeys
<1>4. CASE DataStep
  BY <1>2, <1>4 DEF DataStep, DataCells, ImportCommit, metaVars
<1>5. CASE FlowStep
  BY <1>2, <1>5 DEF FlowStep, ManualProcess, WorkflowAction
<1>6. CASE EntityStep
  BY <1>1, <1>3, <1>6 DEF EntityStep, AddEntity, MoveEntity
<1>7. CASE AccountStep
  BY <1>1, <1>3, <1>7 DEF AccountStep, AddAccount, UpdateAccount
<1>8. CASE FormulaStep
  BY <1>1, <1>8 DEF FormulaStep, FormulaPut
<1>9. CASE ScenarioStep
  BY <1>1, <1>3, <1>9 DEF ScenarioStep, AddScenario
<1>10. CASE RatesStep
  BY <1>1, <1>10 DEF RatesStep, RatesPut
<1>11. CASE UNCHANGED vars
  BY <1>1, <1>11 DEF vars
<1> QED BY <1>4, <1>5, <1>6, <1>7, <1>8, <1>9, <1>10, <1>11 DEF Next

(* A metadata edit never loses or invents a user's cell: deletions are     *)
(* refused while Input refers to the doomed members (inputRefCount), and   *)
(* what they purge is derived.                                             *)
THEOREM UserDataIsKept == Spec => UserDataSurvivesEdits
<1>1. UserDataSurvivesEdits <=> [][Survives]_vars
  BY DEF UserDataSurvivesEdits, Survives
<1>2. [Next]_vars => [Survives]_vars
  BY EditsKeepInput
<1> QED BY <1>1, <1>2, PTL DEF Spec

-----------------------------------------------------------------------------
(* Certified data is frozen.                                               *)

\* What the proof needs of the shape of the data: a stored Input cell is not
\* zero, which is why dropping zeros drops no cell of a user.
DataInv == /\ DOMAIN units = Slices
           /\ \A s \in Slices, e \in Entities :
                /\ "Input" \in DOMAIN units[s][e]
                /\ NonZero(units[s][e]["Input"])

\* The formulas the engine is given are finitely many.
LEMMA FinitelyManyFormulas ==
  ASSUME LeafInv, NEW s
  PROVE  IsFiniteSet(DOMAIN MetaAt(s).formulas)
<1>1. DOMAIN MetaAt(s).formulas \subseteq DOMAIN acc
  BY DEF MetaAt, StoredFormulas, LeafInv, AccInv
<1> QED BY <1>1, FS_Subset DEF LeafInv, AccInv

\* A run of Process, asked for or on the way of a workflow action.
LEMMA RunProcessFacts ==
  ASSUME LeafInv, DataInv, NEW z \in Slices, RunProcess(z)
  PROVE  /\ DataInv'
         /\ \A u \in UnitKeys : UserInput(units', u) = UserInput(units, u)
<1> DEFINE p == Process(MetaAt(z), units[z])
<1>1. units' = [units EXCEPT ![z] = p]
  BY DEF RunProcess
<1>2. ASSUME NEW e \in Entities
      PROVE  "Input" \in DOMAIN p[e] /\ SameForUsers(p[e]["Input"], units[z][e]["Input"])
  <2>1. NonZero(units[z][e]["Input"]) /\ IsFiniteSet(DOMAIN MetaAt(z).formulas)
    BY FinitelyManyFormulas DEF DataInv
  <2>2. "Input" \in DOMAIN p[e]
    BY DerivedStages DEF Process, Stages
  <2> QED BY <2>1, <2>2, ProcessKeepsUserCells
<1> HIDE DEF p
<1>3. DOMAIN units' = Slices /\ units'[z] = p /\ \A s \in Slices : s # z => units'[s] = units[s]
  BY <1>1 DEF DataInv
<1>4. ASSUME NEW s \in Slices, NEW e \in Entities
      PROVE  "Input" \in DOMAIN units'[s][e] /\ SameForUsers(units'[s][e]["Input"], units[s][e]["Input"])
  <2>1. CASE s = z
    BY <1>2, <1>3, <2>1
  <2>2. CASE s # z
    BY <1>3, <2>2 DEF DataInv, SameForUsers
  <2> QED BY <2>1, <2>2
<1>5. DataInv'
  BY <1>3, <1>4 DEF DataInv, SameForUsers
<1>6. \A u \in UnitKeys : UserInput(units', u) = UserInput(units, u)
  BY <1>4 DEF UnitKeys, UserInput, SameForUsers
<1> QED BY <1>5, <1>6

\* A batch writes to no certified unit, and rewrites the others only.
LEMMA DataCellsFacts ==
  ASSUME DataInv, NEW batch, DataCells(batch)
  PROVE  /\ DataInv'
         /\ \A u \in UnitKeys : Certified(u) => UserInput(units', u) = UserInput(units, u)
<1>1. units' = [s \in Slices |-> [e \in Entities |->
                  [units[s][e] EXCEPT !["Input"] = Written(batch, <<s, e>>)]]]
  BY DEF DataCells, WriteAll
<1>2. \A i \in DOMAIN batch : ~Certified(<<batch[i].slice, batch[i].entity>>)
  BY DEF DataCells, ValidWrite
<1>3. ASSUME NEW s \in Slices, NEW e \in Entities
      PROVE  /\ "Input" \in DOMAIN units'[s][e]
             /\ units'[s][e]["Input"] = Written(batch, <<s, e>>)
  BY <1>1 DEF DataInv
<1>4. ASSUME NEW u
      PROVE  NonZero(Written(batch, u))
  BY KeepFacts DEF Written, Overwritten
<1>5. ASSUME NEW s \in Slices, NEW e \in Entities, Certified(<<s, e>>)
      PROVE  UserCells(Written(batch, <<s, e>>)) = UserCells(units[s][e]["Input"])
  <2> DEFINE input == units[s][e]["Input"]
             here  == {i \in DOMAIN batch : <<batch[i].slice, batch[i].entity>> = <<s, e>>}
             same  == [c \in DOMAIN input |-> input[c]]
  <2>1. here = {}
    BY <1>2, <1>5
  <2>2. Written(batch, <<s, e>>) = Keep(same)
    <3>1. {batch[i].coord : i \in here} = {} /\ \A c : {i \in here : batch[i].coord = c} = {}
      BY <2>1
    <3> HIDE DEF here
    <3> QED BY <3>1 DEF Written, Overwritten, here
  <2>3. \A c \in DOMAIN same : same[c] = input[c] /\ input[c] # 0
    BY DEF DataInv, NonZero
  <2>4. DOMAIN same = DOMAIN input
    OBVIOUS
  <2> HIDE DEF same, input
  <2>5. /\ DOMAIN Keep(same) = {x \in DOMAIN same : same[x] # 0}
        /\ \A x \in DOMAIN Keep(same) : Keep(same)[x] = same[x]
    BY KeepFacts
  <2>6. DOMAIN Keep(same) = DOMAIN input /\ \A x \in DOMAIN input : Keep(same)[x] = input[x]
    BY <2>3, <2>4, <2>5
  <2>7. UserCells(Keep(same)) = UserCells(input)
    BY <2>6, UserCellsEqual
  <2> QED BY <2>2, <2>7 DEF input
<1>6. DataInv'
  BY <1>1, <1>3, <1>4 DEF DataInv
<1>7. \A u \in UnitKeys : Certified(u) => UserInput(units', u) = UserInput(units, u)
  BY <1>3, <1>5 DEF UnitKeys, UserInput
<1> QED BY <1>6, <1>7

\* A commit is refused while one of its units is certified.
LEMMA ImportCommitFacts ==
  ASSUME DataInv, NEW rows, ImportCommit(rows)
  PROVE  /\ DataInv'
         /\ \A u \in UnitKeys : Certified(u) => UserInput(units', u) = UserInput(units, u)
<1> DEFINE planned == {RowUnit(rows[i]) : i \in CleanRows(rows)}
<1>1. /\ \A u \in planned : Allowed(StatusOf(u), "import")
      /\ units' = [s \in Slices |-> [e \in Entities |->
                     IF <<s, e>> \in planned
                     THEN [units[s][e] EXCEPT !["Input"] = Loaded(rows, <<s, e>>)]
                     ELSE units[s][e]]]
  BY DEF ImportCommit
<1> HIDE DEF planned
<1>2. \A u \in planned : ~Certified(u)
  BY <1>1 DEF Allowed, Certified
<1>3. ASSUME NEW u
      PROVE  NonZero(Loaded(rows, u))
  BY KeepFacts DEF Loaded
<1>4. ASSUME NEW s \in Slices, NEW e \in Entities
      PROVE  /\ "Input" \in DOMAIN units'[s][e]
             /\ \/ units'[s][e] = units[s][e]
                \/ <<s, e>> \in planned /\ units'[s][e]["Input"] = Loaded(rows, <<s, e>>)
  BY <1>1 DEF DataInv
<1>5. DataInv'
  BY <1>1, <1>3, <1>4 DEF DataInv
<1>6. \A u \in UnitKeys : Certified(u) => UserInput(units', u) = UserInput(units, u)
  BY <1>2, <1>4 DEF UnitKeys, UserInput
<1> QED BY <1>5, <1>6

\* Requests that bring no data leave the cells of users as they are.
LEMMA OthersKeepUserInput ==
  ASSUME LeafInv, DataInv,
         \/ FlowStep \/ EntityStep \/ AccountStep \/ FormulaStep \/ ScenarioStep \/ RatesStep
         \/ UNCHANGED vars
  PROVE  DataInv' /\ \A u \in UnitKeys : UserInput(units', u) = UserInput(units, u)
<1> DEFINE Kept == DataInv' /\ \A u \in UnitKeys : UserInput(units', u) = UserInput(units, u)
<1>1. CASE units' = units
  BY <1>1 DEF DataInv, UserInput
<1>2. ASSUME NEW x,
             \/ \E recursive : DeleteEntity(x, recursive) \/ DeleteAccount(x, recursive)
             \/ DeleteScenario(x)
      PROVE  Kept
  <2>1. DOMAIN units' = Slices
    BY <1>2 DEF DeleteEntity, DeleteAccount, DeleteScenario
  <2>2. ASSUME NEW s \in Slices, NEW e \in Entities
        PROVE  /\ UserCells(units'[s][e]["Input"]) = UserCells(units[s][e]["Input"])
               /\ NonZero(units'[s][e]["Input"]) /\ "Input" \in DOMAIN units'[s][e]
    BY <1>2, DeletionsKeepInput DEF DataInv
  <2>3. DataInv'
    BY <2>1, <2>2 DEF DataInv
  <2>4. \A u \in UnitKeys : UserInput(units', u) = UserInput(units, u)
    BY <2>2 DEF UnitKeys, UserInput
  <2> QED BY <2>3, <2>4
<1>3. ASSUME NEW s \in Slices, ManualProcess(s)
      PROVE  Kept
  BY <1>3, RunProcessFacts DEF ManualProcess
<1>4. ASSUME NEW s \in Slices, NEW e, NEW a, WorkflowAction(s, e, a)
      PROVE  Kept
  <2>1. CASE RunProcess(s)
    BY <2>1, RunProcessFacts
  <2>2. CASE units' = units
    BY <1>1, <2>2
  <2> QED BY <1>4, <2>1, <2>2 DEF WorkflowAction
<1>5. CASE FlowStep
  BY <1>3, <1>4, <1>5 DEF FlowStep
<1>6. CASE EntityStep
  BY <1>1, <1>2, <1>6 DEF EntityStep, AddEntity, MoveEntity
<1>7. CASE AccountStep
  BY <1>1, <1>2, <1>7 DEF AccountStep, AddAccount, UpdateAccount
<1>8. CASE FormulaStep
  BY <1>1, <1>8 DEF FormulaStep, FormulaPut
<1>9. CASE ScenarioStep
  BY <1>1, <1>2, <1>9 DEF ScenarioStep, AddScenario
<1>10. CASE RatesStep
  BY <1>1, <1>10 DEF RatesStep, RatesPut
<1>11. CASE UNCHANGED vars
  BY <1>1, <1>11 DEF vars
<1> QED BY <1>5, <1>6, <1>7, <1>8, <1>9, <1>10, <1>11

Frozen == \A u \in UnitKeys : Certified(u) => UserInput(units', u) = UserInput(units, u)

LEMMA DataInvInit == Init => DataInv
  BY DEF Init, DataInv, NoUnit, Stages, Empty, NonZero

LEMMA DataInvStep == LeafInv /\ DataInv /\ [Next]_vars => DataInv' /\ Frozen
<1> SUFFICES ASSUME LeafInv, DataInv, [Next]_vars PROVE DataInv' /\ Frozen
  OBVIOUS
<1>1. CASE DataStep
  BY <1>1, DataCellsFacts, ImportCommitFacts DEF DataStep, Frozen
<1>2. CASE ~DataStep
  BY <1>2, OthersKeepUserInput DEF Next, Frozen
<1> QED BY <1>1, <1>2

(* data.go and imports.go refuse writes to a certified unit, and nothing   *)
(* else a client can do changes what users entered there: not a run of     *)
(* Process for another unit of the slice, not an edit of the metadata.     *)
THEOREM CertifiedDataIsFrozen == Spec => CertifiedFrozen
<1>1. LeafInv /\ DataInv /\ [Next]_vars => DataInv' /\ [Frozen]_vars
  BY DataInvStep
<1>2. Init => LeafInv /\ DataInv
  BY LeafInvInit, DataInvInit
<1>3. CertifiedFrozen <=> [][Frozen]_vars
  BY DEF CertifiedFrozen, Frozen
<1> QED BY <1>1, <1>2, <1>3, LeafInvStep, PTL DEF Spec

-----------------------------------------------------------------------------
(* What the stages hold.                                                   *)

EntInv == /\ IsFiniteSet(DOMAIN ent) /\ Closed(ent) /\ Acyclic(ent)
          /\ DOMAIN ent \subseteq Entities

\* The coordinates a cell of slice s may have, made of names there are ...
Known(s) == {c \in Coords : s[1] \in scen /\ Has(acc, c.acct) /\ (c.ic = None \/ Has(ent, c.ic))}

\* ... and those a cell of its entity e may have.
Named(s, e) == IF Has(ent, e) THEN Known(s) ELSE {}

CellsInv == /\ DOMAIN units = Slices
            /\ \A s \in Slices, e \in Entities :
                 /\ DOMAIN units[s][e] = Stages
                 /\ \A st \in Stages : Fits(units[s][e][st], Named(s, e))

FlowInv == \A u \in DOMAIN status : u \in UnitKeys /\ u[1][1] \in scen /\ Has(ent, u[2])

\* Formulas, rates and the rest of the metadata keep their shape, and so does
\* the registry.
SettingsInv ==
  /\ \A a \in DOMAIN expr : LinearForm(expr[a])
  /\ dynamic \subseteq DOMAIN acc
  /\ scen \subseteq Scenarios
  /\ DOMAIN rates = Slices /\ \A s \in Slices : RateTable(rates[s])
  /\ \A u \in DOMAIN status : status[u] \in Statuses

IntegrityInv ==
  LeafInv /\ EntInv /\ DOMAIN acc \subseteq Accounts /\ SettingsInv /\ CellsInv /\ FlowInv

\* Edits that take no name away leave every reference good.
LEMMA NothingTaken ==
  ASSUME CellsInv, UNCHANGED units, DOMAIN ent \subseteq DOMAIN ent', DOMAIN acc \subseteq DOMAIN acc',
         scen \subseteq scen'
  PROVE  CellsInv'
<1>1. \A s, e : Named(s, e) \subseteq Named(s, e)'
  BY DEF Named, Known, Has
<1> QED BY <1>1 DEF CellsInv, Fits

\* Moving a member or hanging a new one keeps the entity tree a tree.
LEMMA EntityTreeKept ==
  ASSUME EntInv, NEW x \in EditEntities, NEW p \in Entities \cup {NoParent},
         AddEntity(x, p) \/ MoveEntity(x, p)
  PROVE  EntInv' /\ DOMAIN ent \subseteq DOMAIN ent'
<1>1. NoParent \notin DOMAIN ent /\ x # NoParent /\ x \in Entities
  BY MetadataAssumption DEF EntInv
<1>2. CASE AddEntity(x, p)
  <2>1. /\ x \notin DOMAIN ent /\ (p = NoParent \/ p \in DOMAIN ent)
        /\ ent' = [y \in DOMAIN ent \cup {x} |-> IF y = x THEN p ELSE ent[y]]
    BY <1>2 DEF AddEntity, CanAdd, Has, Added
  <2>2. p # x
    BY <1>1, <2>1
  <2>3. Acyclic(ent')
    BY <1>1, <2>1, <2>2, AdditionIsAcyclic DEF EntInv
  <2>4. IsFiniteSet(DOMAIN ent') /\ DOMAIN ent' = DOMAIN ent \cup {x}
    BY <2>1, FS_AddElement DEF EntInv
  <2>5. Closed(ent')
    BY <2>1 DEF EntInv, Closed
  <2> QED BY <1>1, <2>3, <2>4, <2>5 DEF EntInv
<1>3. CASE MoveEntity(x, p)
  <2>1. /\ x \in DOMAIN ent /\ ent' = [ent EXCEPT ![x] = p]
        /\ p = NoParent \/ (p \in DOMAIN ent /\ x \notin PathToRoot(ent, p))
    BY <1>3 DEF MoveEntity, CanMove, Has, IsAncestor, Moved
  <2>2. Acyclic(ent')
    BY <1>1, <2>1, MoveIsAcyclic DEF EntInv
  <2>3. DOMAIN ent' = DOMAIN ent /\ Closed(ent')
    BY <2>1 DEF EntInv, Closed
  <2> QED BY <2>2, <2>3 DEF EntInv
<1> QED BY <1>2, <1>3

\* A batch writes finite amounts under names there are.
LEMMA BatchFits ==
  ASSUME CellsInv, NEW batch \in Lists(Writes, MaxBatch), DataCells(batch)
  PROVE  CellsInv'
<1>1. units' = [s \in Slices |-> [e \in Entities |->
                  [units[s][e] EXCEPT !["Input"] = Written(batch, <<s, e>>)]]]
  BY DEF DataCells, WriteAll
<1>2. ASSUME NEW i \in DOMAIN batch
      PROVE  /\ Finite(batch[i].value) /\ batch[i].value \in Int
             /\ batch[i].coord \in Named(batch[i].slice, batch[i].entity)
  <2>1. batch[i] \in Writes
    BY DEF Lists
  <2>2. ValidWrite(batch[i]) /\ batch[i].coord \in Coords /\ batch[i].value \in Int
    BY <2>1, DataAssumption DEF DataCells
  <2> QED BY <2>2 DEF ValidWrite, ValidCell, IsLeaf, Has, Named, Known
<1>3. ASSUME NEW s \in Slices, NEW e \in Entities
      PROVE  Fits(Written(batch, <<s, e>>), Named(s, e))
  <2> DEFINE input   == units[s][e]["Input"]
             here    == {i \in DOMAIN batch : <<batch[i].slice, batch[i].entity>> = <<s, e>>}
             to(c)   == {i \in here : batch[i].coord = c}
             last(c) == CHOOSE i \in to(c) : \A j \in to(c) : j <= i
             cells   == DOMAIN input \cup {batch[i].coord : i \in here}
             all     == [c \in cells |-> IF to(c) = {} THEN input[c] ELSE batch[last(c)].value]
  <2>1. Written(batch, <<s, e>>) = Keep(all)
    BY DEF Written, Overwritten
  <2>2. Fits(input, Named(s, e))
    BY DEF CellsInv, Stages
  <2>3. cells \subseteq Named(s, e)
    BY <1>2, <2>2 DEF Fits
  <2>4. ASSUME NEW c \in cells
        PROVE  all[c] \in Int /\ (all[c] # 0 => Finite(all[c]))
    <3>1. CASE to(c) = {}
      <4>1. c \in DOMAIN input
        BY <3>1
      <4> QED BY <2>2, <3>1, <4>1 DEF Fits, Whole
    <3>2. CASE to(c) # {}
      <4>1. last(c) \in DOMAIN batch
        <5> DEFINE T == to(c)
        <5>1. PICK k \in 1 .. MaxBatch : DOMAIN batch = 1 .. k
          BY DEF Lists
        <5>2. T \subseteq 1 .. k /\ T # {} /\ k \in Nat
          BY <3>2, <5>1
        <5>3. \E i \in T : \A j \in T : j <= i
          <6> HIDE DEF T
          <6> QED BY <5>2, GreatestOfInterval
        <5>4. last(c) \in T
          BY <5>3
        <5> QED BY <5>4
      <4>2. all[c] = batch[last(c)].value
        BY <3>2
      <4> HIDE DEF last, all
      <4> QED BY <1>2, <4>1, <4>2
    <3> QED BY <3>1, <3>2
  <2>5. DOMAIN all = cells
    OBVIOUS
  <2> HIDE DEF all, cells
  <2> QED BY <2>1, <2>3, <2>4, <2>5, WrittenFits
<1>4. ASSUME NEW s \in Slices, NEW e \in Entities
      PROVE  /\ DOMAIN units'[s][e] = Stages
             /\ units'[s][e]["Input"] = Written(batch, <<s, e>>)
             /\ \A st \in Stages : st # "Input" => units'[s][e][st] = units[s][e][st]
  BY <1>1 DEF CellsInv, Stages
<1>5. \A s, e : Named(s, e)' = Named(s, e)
  BY DEF DataCells, metaVars, Named, Known
<1> QED BY <1>1, <1>3, <1>4, <1>5 DEF CellsInv

\* Rows whose amounts can be added.
Addable(rows) == IsFiniteSet(DOMAIN rows) /\ \A i \in DOMAIN rows : rows[i].amount \in Int

LEMMA PlannedIsWhole ==
  ASSUME NEW rows, Addable(rows), NEW u, NEW c
  PROVE  Planned(rows, u, c) \in Int
<1> DEFINE own == {j \in CleanRows(rows) : RowUnit(rows[j]) = u /\ ImportCoord(rows[j]) = c}
           s   == [i \in own |-> rows[i].amount]
<1>1. own \subseteq DOMAIN rows
  BY DEF CleanRows
<1>2. Planned(rows, u, c) = SumFunction(s)
  BY DEF Planned
<1> HIDE DEF own
<1>3. IsFiniteSet(own) /\ DOMAIN s = own /\ \A i \in own : s[i] \in Int
  BY <1>1, FS_Subset DEF Addable
<1> HIDE DEF s
<1> QED BY <1>2, <1>3, SumIsInteger DEF SumFunction

\* A commit loads sums that are finite, under names there are.
LEMMA CommitFits ==
  ASSUME EntInv, DOMAIN acc \subseteq Accounts, CellsInv, NEW rows, Addable(rows), ImportCommit(rows)
  PROVE  CellsInv'
<1> DEFINE planned == {RowUnit(rows[i]) : i \in CleanRows(rows)}
<1>1. /\ \A u \in planned : PlanFinite(rows, u)
      /\ units' = [s \in Slices |-> [e \in Entities |->
                     IF <<s, e>> \in planned
                     THEN [units[s][e] EXCEPT !["Input"] = Loaded(rows, <<s, e>>)]
                     ELSE units[s][e]]]
  BY DEF ImportCommit
<1>2. ASSUME NEW i \in CleanRows(rows)
      PROVE  ImportCoord(rows[i]) \in Named(rows[i].slice, rows[i].entity)
  <2> DEFINE c == ImportCoord(rows[i])
  <2>1. ValidCell(rows[i].slice, rows[i].entity, c)
    BY DEF CleanRows
  <2>2. c \in Coords
    <3>1. Has(acc, c.acct) /\ (c.ic = None \/ Has(ent, c.ic))
      BY <2>1 DEF ValidCell, IsLeaf
    <3>2. c.acct \in Accounts /\ c.ic \in Entities \cup {None}
      BY <3>1 DEF EntInv, Has
    <3> QED BY <3>2 DEF ImportCoord, Coords, Origins, UserOrigins
  <2> HIDE DEF c
  <2>3. c \in Named(rows[i].slice, rows[i].entity)
    BY <2>1, <2>2 DEF ValidCell, IsLeaf, Has, Named, Known
  <2> QED BY <2>3 DEF c
<1>3. ASSUME NEW s \in Slices, NEW e \in Entities, <<s, e>> \in planned
      PROVE  Fits(Loaded(rows, <<s, e>>), Named(s, e))
  <2> DEFINE u       == <<s, e>>
             input   == units[s][e]["Input"]
             cleared == ClearOrigin(input, "Import")
             coords  == {ImportCoord(rows[i]) : i \in {j \in CleanRows(rows) : RowUnit(rows[j]) = u}}
             all     == [c \in DOMAIN cleared \cup coords |->
                           IF c \in coords THEN Planned(rows, u, c) ELSE cleared[c]]
  <2>1. Loaded(rows, u) = Keep(all)
    BY DEF Loaded
  <2>2. Fits(input, Named(s, e))
    BY DEF CellsInv, Stages
  <2>3. Fits(cleared, Named(s, e))
    BY <2>2 DEF Fits, ClearOrigin, Whole
  <2>4. coords \subseteq Named(s, e) /\ \A c \in coords : Finite(Planned(rows, u, c))
    <3>1. PlanFinite(rows, u)
      BY <1>1, <1>3
    <3>2. \A i \in CleanRows(rows) : RowUnit(rows[i]) = u => rows[i].slice = s /\ rows[i].entity = e
      BY DEF RowUnit
    <3> QED BY <1>2, <3>1, <3>2 DEF PlanFinite
  <2> HIDE DEF coords, cleared
  <2>5. /\ DOMAIN all = DOMAIN cleared \cup coords
        /\ \A c \in DOMAIN all : all[c] = IF c \in coords THEN Planned(rows, u, c) ELSE cleared[c]
    OBVIOUS
  <2> HIDE DEF all
  <2>6. /\ DOMAIN all \subseteq Named(s, e)
        /\ \A c \in DOMAIN all : all[c] \in Int /\ (all[c] # 0 => Finite(all[c]))
    BY <2>3, <2>4, <2>5, PlannedIsWhole DEF Fits, Whole
  <2> QED BY <2>1, <2>6, WrittenFits
<1> HIDE DEF planned
<1>4. ASSUME NEW s \in Slices, NEW e \in Entities
      PROVE  /\ DOMAIN units'[s][e] = Stages
             /\ \A st \in Stages : \/ units'[s][e][st] = units[s][e][st]
                                   \/ /\ <<s, e>> \in planned
                                      /\ units'[s][e][st] = Loaded(rows, <<s, e>>)
  BY <1>1 DEF CellsInv, Stages
<1>5. \A s, e : Named(s, e)' = Named(s, e)
  BY DEF ImportCommit, metaVars, Named, Known
<1> QED BY <1>1, <1>3, <1>4, <1>5 DEF CellsInv

\* There are finitely many coordinates made of names of the metadata.
LEMMA KnownIsFinite ==
  ASSUME LeafInv, EntInv, NEW s
  PROVE  IsFiniteSet(Known(s))
<1> DEFINE A == DOMAIN acc
           I == DOMAIN ent \cup {None}
           P == A \X (Origins \X I)
           f == [p \in P |-> [acct |-> p[1], origin |-> p[2][1], ic |-> p[2][2]]]
<1>1. IsFiniteSet(A) /\ IsFiniteSet(I)
  BY FS_AddElement DEF LeafInv, AccInv, EntInv
<1>2. IsFiniteSet(Origins)
  <2>1. Origins = {"Import", "Forms", "Adj", "Calc", "Elim"}
    BY DEF Origins, UserOrigins
  <2>2. IsFiniteSet({"Import"} \cup {"Forms"} \cup {"Adj"} \cup {"Calc"} \cup {"Elim"})
    BY FS_Singleton, FS_Union
  <2> QED BY <2>1, <2>2
<1> HIDE DEF A, I
<1>3. IsFiniteSet(P)
  <2>1. IsFiniteSet(Origins \X I)
    BY <1>1, <1>2, FS_Product
  <2> DEFINE J == Origins \X I
  <2>2. IsFiniteSet(J)
    BY <2>1
  <2> HIDE DEF J
  <2>3. IsFiniteSet(A \X J)
    BY <1>1, <2>2, FS_Product
  <2> QED BY <2>3 DEF J
<1>4. ASSUME NEW c \in Known(s)
      PROVE  \E p \in P : f[p] = c
  <2>1. /\ c \in Coords /\ c.acct \in A /\ c.ic \in I /\ c.origin \in Origins
        /\ c = [acct |-> c.acct, origin |-> c.origin, ic |-> c.ic]
    BY DEF Known, Has, A, I, Coords
  <2> DEFINE p == <<c.acct, <<c.origin, c.ic>>>>
  <2>2. p \in P /\ f[p] = [acct |-> c.acct, origin |-> c.origin, ic |-> c.ic]
    BY <2>1
  <2> QED BY <2>1, <2>2
<1> HIDE DEF P
<1>5. DOMAIN f = P
  OBVIOUS
<1> HIDE DEF f
<1>6. Known(s) \subseteq {f[p] : p \in P}
  BY <1>4
<1>7. IsFiniteSet({f[p] : p \in P})
  BY <1>3, <1>5, ImageIsFinite
<1> QED BY <1>6, <1>7, FS_Subset

\* Formulas, eliminations and rates keep Process within those coordinates.
LEMMA RunCovers ==
  ASSUME LeafInv, EntInv, DOMAIN acc \subseteq Accounts, SettingsInv, NEW z \in Slices
  PROVE  Covers(MetaAt(z), Known(z))
<1> DEFINE meta == MetaAt(z)
           K    == Known(z)
<1>1. meta.ent = ent /\ meta.acc = acc /\ meta.formulas = StoredFormulas /\ meta.rates = rates[z]
  BY DEF MetaAt
<1>2. ASSUME NEW c \in K
      PROVE  /\ c.ic = None \/ Has(ent, c.ic)
             /\ [c EXCEPT !.origin = "Elim"] \in K
             /\ \A t \in DOMAIN StoredFormulas : CalcCell(t, c.ic) \in K
  <2>1. c \in Coords /\ z[1] \in scen /\ Has(acc, c.acct) /\ (c.ic = None \/ Has(ent, c.ic))
    BY DEF Known
  <2>2. [c EXCEPT !.origin = "Elim"] = [acct |-> c.acct, origin |-> "Elim", ic |-> c.ic]
    BY <2>1 DEF Coords
  <2>3. [c EXCEPT !.origin = "Elim"] \in K
    BY <2>1, <2>2 DEF Known, Coords, Origins
  <2>4. ASSUME NEW t \in DOMAIN StoredFormulas
        PROVE  CalcCell(t, c.ic) \in K
    <3>1. t \in DOMAIN acc /\ t \in Accounts
      BY DEF StoredFormulas, LeafInv, AccInv
    <3> QED BY <2>1, <3>1 DEF Known, Coords, Origins, CalcCell, Has
  <2> QED BY <2>1, <2>3, <2>4
<1>3. IsFiniteSet(K)
  BY KnownIsFinite
<1>4. Exact(meta)
  <2>1. IsFiniteSet(DOMAIN acc) /\ Closed(acc)
    BY DEF LeafInv, AccInv
  <2>2. \A t \in DOMAIN StoredFormulas : LinearForm(StoredFormulas[t])
    BY DEF StoredFormulas, SettingsInv
  <2>3. \A r \in DOMAIN rates[z] : rates[z][r] \in Int
    BY DEF SettingsInv, RateTable
  <2> HIDE DEF meta
  <2> QED BY <1>1, <2>1, <2>2, <2>3 DEF Exact
<1> HIDE DEF K, meta
<1>5. Covers(meta, K)
  BY <1>1, <1>2, <1>3, <1>4 DEF Covers, Calculable
<1> QED BY <1>5 DEF K, meta

\* A run of Process makes no cell of another name and no unfit amount.
LEMMA RunNames ==
  ASSUME LeafInv, EntInv, DOMAIN acc \subseteq Accounts, SettingsInv, CellsInv,
         NEW z \in Slices, NEW e \in Entities
  PROVE  LET p == Process(MetaAt(z), units[z])
         IN  DOMAIN p[e] = Stages /\ \A st \in Stages : Fits(p[e][st], Named(z, e))
<1> DEFINE meta == MetaAt(z)
           K    == Known(z)
           us   == units[z]
           p    == Process(meta, us)
<1>1. meta.ent = ent
  BY DEF MetaAt
<1>2. IsFiniteSet(DOMAIN meta.formulas)
  BY FinitelyManyFormulas
<1>3. Covers(meta, K)
  BY RunCovers
<1>4. \A x : Of(meta, K, x) = Named(z, x)
  BY <1>1 DEF Of, Named
<1>5. \A x \in Entities : Fits(us[x]["Input"], Of(meta, K, x))
  BY <1>4 DEF CellsInv, Stages
<1>6. /\ IsFiniteSet(DOMAIN meta.ent) /\ Closed(meta.ent) /\ Acyclic(meta.ent)
      /\ DOMAIN meta.ent \subseteq Entities /\ NoParent \notin Entities
  BY <1>1, MetadataAssumption DEF EntInv
<1>7. DOMAIN p[e] = Stages /\ \A st \in Stages : Fits(p[e][st], Of(meta, K, e))
  <2> HIDE DEF meta, K, us
  <2> QED BY <1>2, <1>3, <1>5, <1>6, ProcessFits
<1> HIDE DEF p
<1>8. DOMAIN p[e] = Stages /\ \A st \in Stages : Fits(p[e][st], Named(z, e))
  BY <1>4, <1>7
<1> QED BY <1>8 DEF p

LEMMA ProcessRunFits ==
  ASSUME LeafInv, EntInv, DOMAIN acc \subseteq Accounts, SettingsInv, CellsInv,
         NEW z \in Slices, RunProcess(z), UNCHANGED metaVars
  PROVE  CellsInv'
<1> DEFINE p == Process(MetaAt(z), units[z])
<1>1. units' = [units EXCEPT ![z] = p]
  BY DEF RunProcess
<1>6. ASSUME NEW e \in Entities
      PROVE  DOMAIN p[e] = Stages /\ \A st \in Stages : Fits(p[e][st], Named(z, e))
  BY RunNames
<1> HIDE DEF p
<1>7. DOMAIN units' = Slices /\ units'[z] = p /\ \A s \in Slices : s # z => units'[s] = units[s]
  BY <1>1 DEF CellsInv
<1>8. \A s, e : Named(s, e)' = Named(s, e)
  BY DEF metaVars, Named, Known
<1>9. ASSUME NEW s \in Slices, NEW e \in Entities
      PROVE  DOMAIN units'[s][e] = Stages /\ \A st \in Stages : Fits(units'[s][e][st], Named(s, e))
  <2>1. CASE s = z
    BY <1>6, <1>7, <2>1
  <2>2. CASE s # z
    BY <1>7, <2>2 DEF CellsInv
  <2> QED BY <2>1, <2>2
<1> QED BY <1>7, <1>8, <1>9 DEF CellsInv

\* A deletion is refused while Input refers to what it takes, and purges the
\* other stages.
LEMMA PurgedFits ==
  ASSUME NEW u, NEW naming, NEW K, NEW J,
         \A st \in Stages : Fits(u[st], K),
         \A c \in DOMAIN u["Input"] : c \notin naming,
         K \subseteq J \cup naming
  PROVE  DOMAIN Purged(u, naming) = Stages /\ \A st \in Stages : Fits(Purged(u, naming)[st], J)
<1>1. ASSUME NEW st \in Stages
      PROVE  Fits(Purged(u, naming)[st], J)
  <2> DEFINE gone == IF st = "Input" THEN {} ELSE naming
  <2>1. Purged(u, naming)[st] = [c \in DOMAIN u[st] \ gone |-> u[st][c]]
    BY DEF Purged
  <2>2. ASSUME NEW c \in DOMAIN u[st] \ gone PROVE c \in J
    BY DEF Fits
  <2> HIDE DEF gone
  <2>3. Fits(u[st], K)
    OBVIOUS
  <2> QED BY <2>1, <2>2, <2>3 DEF Fits, Whole
<1> QED BY <1>1 DEF Purged

LEMMA EmptyUnitFits == \A K : DOMAIN NoUnit = Stages /\ \A st \in Stages : Fits(NoUnit[st], K)
  BY DEF NoUnit, Fits, Empty, Whole

LEMMA DeleteEntityFits ==
  ASSUME EntInv, CellsInv, NEW x, NEW recursive, DeleteEntity(x, recursive)
  PROVE  EntInv' /\ CellsInv'
<1> DEFINE doomed == Subtree(ent, x)
           naming == {c \in Coords : c.ic \in doomed}
<1>1. /\ ~EntityInUse(doomed)
      /\ ent' = [y \in DOMAIN ent \cap (DOMAIN ent \ doomed) |-> ent[y]]
      /\ units' = [s \in Slices |-> [e \in Entities |->
                     IF e \in doomed THEN NoUnit ELSE Purged(units[s][e], naming)]]
      /\ UNCHANGED <<acc, scen>>
  BY DEF DeleteEntity, Restricted
<1>2. \A y \in DOMAIN ent \ doomed : ent[y] = NoParent \/ ent[y] \in DOMAIN ent \ doomed
  BY RemovalLeavesATree DEF EntInv
<1> HIDE DEF doomed
<1>3. DOMAIN ent' = DOMAIN ent \ doomed /\ ent' = [y \in DOMAIN ent \ doomed |-> ent[y]]
  BY <1>1
<1>4. EntInv'
  <2>1. IsFiniteSet(DOMAIN ent')
    BY <1>3, FS_Difference DEF EntInv
  <2>2. Closed(ent')
    BY <1>2, <1>3 DEF Closed
  <2>3. Acyclic(ent')
    <3>1. DOMAIN ent \ doomed \in SUBSET DOMAIN ent
      OBVIOUS
    <3> QED BY <1>3, <3>1, RemovalIsAcyclic DEF EntInv
  <2> QED BY <1>3, <2>1, <2>2, <2>3 DEF EntInv
<1>5. ASSUME NEW s \in Slices, NEW e \in Entities
      PROVE  /\ DOMAIN units'[s][e] = Stages
             /\ \A st \in Stages : Fits(units'[s][e][st], Named(s, e)')
  <2>1. CASE e \in doomed
    BY <1>1, <2>1, EmptyUnitFits
  <2>2. CASE e \notin doomed
    <3>1. units'[s][e] = Purged(units[s][e], naming)
      BY <1>1, <2>2
    <3>2. \A st \in Stages : Fits(units[s][e][st], Named(s, e))
      BY DEF CellsInv
    <3>3. \A c \in DOMAIN units[s][e]["Input"] : c \notin naming
      BY <1>1 DEF EntityInUse
    <3>4. Named(s, e) \subseteq Named(s, e)' \cup naming
      BY <1>1, <1>3, <2>2 DEF Named, Known, Has
    <3> HIDE DEF naming
    <3> QED BY <3>1, <3>2, <3>3, <3>4, PurgedFits
  <2> QED BY <2>1, <2>2
<1> QED BY <1>1, <1>4, <1>5 DEF CellsInv

LEMMA DeleteAccountFits ==
  ASSUME CellsInv, NEW x, NEW recursive, DeleteAccount(x, recursive)
  PROVE  CellsInv'
<1> DEFINE doomed == Subtree(acc, x)
           naming == {c \in Coords : c.acct \in doomed}
<1>1. /\ ~AccountInUse(doomed)
      /\ acc' = [y \in DOMAIN acc \cap (DOMAIN acc \ doomed) |-> acc[y]]
      /\ units' = [s \in Slices |-> [e \in Entities |-> Purged(units[s][e], naming)]]
      /\ UNCHANGED <<ent, scen>>
  BY DEF DeleteAccount, Restricted
<1> HIDE DEF doomed
<1>2. ASSUME NEW s \in Slices, NEW e \in Entities
      PROVE  /\ DOMAIN units'[s][e] = Stages
             /\ \A st \in Stages : Fits(units'[s][e][st], Named(s, e)')
  <2>1. units'[s][e] = Purged(units[s][e], naming)
    BY <1>1
  <2>2. \A st \in Stages : Fits(units[s][e][st], Named(s, e))
    BY DEF CellsInv
  <2>3. \A c \in DOMAIN units[s][e]["Input"] : c \notin naming
    BY <1>1 DEF AccountInUse
  <2>4. Named(s, e) \subseteq Named(s, e)' \cup naming
    BY <1>1 DEF Named, Known, Has
  <2> HIDE DEF naming
  <2> QED BY <2>1, <2>2, <2>3, <2>4, PurgedFits
<1> QED BY <1>1, <1>2 DEF CellsInv

LEMMA DeleteScenarioFits ==
  ASSUME CellsInv, NEW x, DeleteScenario(x)
  PROVE  CellsInv'
<1> DEFINE doomed == SlicesOf(x)
<1>1. /\ scen' = scen \ {x}
      /\ units' = [s \in Slices |-> IF s \in doomed THEN [e \in Entities |-> NoUnit] ELSE units[s]]
      /\ UNCHANGED <<ent, acc>>
  BY DEF DeleteScenario
<1>2. ASSUME NEW s \in Slices, NEW e \in Entities
      PROVE  /\ DOMAIN units'[s][e] = Stages
             /\ \A st \in Stages : Fits(units'[s][e][st], Named(s, e)')
  <2>1. CASE s \in doomed
    BY <1>1, <2>1, EmptyUnitFits
  <2>2. CASE s \notin doomed
    <3>1. units'[s] = units[s]
      BY <1>1, <2>2
    <3>2. Named(s, e)' = Named(s, e)
      BY <1>1, <2>2 DEF Named, Known, SlicesOf
    <3> QED BY <3>1, <3>2 DEF CellsInv
  <2> QED BY <2>1, <2>2
<1> QED BY <1>1, <1>2 DEF CellsInv

\* The registry tracks units that exist: a deletion forgets its units.
\* Units there are may be moved,
LEMMA TrackedKeepsFlow ==
  ASSUME FlowInv, NEW us, NEW a, status' = Tracked(us, a), UNCHANGED metaVars,
         \A u \in us : u \in UnitKeys /\ u[1][1] \in scen /\ Has(ent, u[2])
  PROVE  FlowInv'
  BY DEF FlowInv, Tracked, Has, metaVars

\* as a commit does, whose clean rows name such units.
LEMMA CommitKeepsFlow ==
  ASSUME EntInv, FlowInv, NEW rows, ImportCommit(rows)
  PROVE  FlowInv'
<1> DEFINE planned == {RowUnit(rows[i]) : i \in CleanRows(rows)}
<1>1. status' = Tracked(planned, "import") /\ UNCHANGED metaVars
  BY DEF ImportCommit, TrackedImport
<1>2. ASSUME NEW i \in CleanRows(rows)
      PROVE  LET u == RowUnit(rows[i]) IN u \in UnitKeys /\ u[1][1] \in scen /\ Has(ent, u[2])
  <2>1. ValidCell(rows[i].slice, rows[i].entity, ImportCoord(rows[i]))
    BY DEF CleanRows
  <2> QED BY <2>1 DEF ValidCell, IsLeaf, Has, EntInv, RowUnit, UnitKeys
<1>3. \A u \in planned : u \in UnitKeys /\ u[1][1] \in scen /\ Has(ent, u[2])
  BY <1>2
<1> HIDE DEF planned
<1> QED BY <1>1, <1>3, TrackedKeepsFlow

LEMMA FlowStepKept ==
  ASSUME EntInv, EntInv', FlowInv, [Next]_vars
  PROVE  FlowInv'
<1>1. CASE status' = status /\ DOMAIN ent \subseteq DOMAIN ent' /\ scen \subseteq scen'
  BY <1>1 DEF FlowInv, Has
<1>2. ASSUME NEW us, NEW a, status' = Tracked(us, a), UNCHANGED metaVars,
             \A u \in us : u \in UnitKeys /\ u[1][1] \in scen /\ Has(ent, u[2])
      PROVE  FlowInv'
  BY <1>2, TrackedKeepsFlow
<1>3. ASSUME NEW s \in Slices, NEW e, NEW a, WorkflowAction(s, e, a)
      PROVE  FlowInv'
  <2>1. /\ status' = Tracked({<<s, e>>}, a) /\ UNCHANGED metaVars
        /\ <<s, e>> \in UnitKeys /\ s[1] \in scen /\ Has(ent, e)
    BY <1>3 DEF WorkflowAction, UnitKeys, EntInv, Has
  <2>2. \A u \in {<<s, e>>} : u \in UnitKeys /\ u[1][1] \in scen /\ Has(ent, u[2])
    BY <2>1
  <2> QED BY <1>2, <2>1, <2>2
<1>4. ASSUME NEW x, NEW recursive, DeleteEntity(x, recursive)
      PROVE  FlowInv'
  <2> DEFINE doomed == Subtree(ent, x)
  <2>1. /\ DOMAIN ent' = DOMAIN ent \ doomed /\ scen' = scen
        /\ DOMAIN status' = DOMAIN status \ (Slices \X doomed)
    BY <1>4 DEF DeleteEntity, Restricted, Forgotten
  <2> HIDE DEF doomed
  <2> QED BY <2>1 DEF FlowInv, Has, UnitKeys
<1>5. ASSUME NEW x, DeleteScenario(x)
      PROVE  FlowInv'
  <2>1. /\ ent' = ent /\ scen' = scen \ {x}
        /\ DOMAIN status' = DOMAIN status \ (SlicesOf(x) \X Entities)
    BY <1>5 DEF DeleteScenario, Restricted, Forgotten
  <2>2. ASSUME NEW u \in DOMAIN status' PROVE u[1][1] # x
    BY <2>1 DEF FlowInv, UnitKeys, SlicesOf
  <2> QED BY <2>1, <2>2 DEF FlowInv, Has
<1>6. CASE DataStep
  BY <1>1, <1>6, CommitKeepsFlow DEF DataStep, DataCells, metaVars
<1>7. CASE FlowStep
  BY <1>1, <1>3, <1>7 DEF FlowStep, ManualProcess, metaVars
<1>8. CASE EntityStep
  BY <1>1, <1>4, <1>8 DEF EntityStep, AddEntity, MoveEntity, Added, Moved
<1>9. CASE AccountStep
  BY <1>1, <1>9 DEF AccountStep, AddAccount, UpdateAccount, DeleteAccount
<1>10. CASE FormulaStep
  BY <1>1, <1>10 DEF FormulaStep, FormulaPut
<1>11. CASE ScenarioStep
  BY <1>1, <1>5, <1>11 DEF ScenarioStep, AddScenario
<1>12. CASE RatesStep
  BY <1>1, <1>12 DEF RatesStep, RatesPut
<1>13. CASE UNCHANGED vars
  BY <1>1, <1>13 DEF vars
<1> QED BY <1>6, <1>7, <1>8, <1>9, <1>10, <1>11, <1>12, <1>13 DEF Next

LEMMA SettingsInit == Init => SettingsInv
  BY MetadataAssumption, SettingsAssumption DEF Init, SettingsInv

LEMMA TrackedKeepsSettings ==
  ASSUME SettingsInv, NEW us, NEW a \in Actions, status' = Tracked(us, a), UNCHANGED metaVars
  PROVE  SettingsInv'
<1>1. Target(a) \in Statuses
  BY DEF Actions, Target, Statuses
<1> QED BY <1>1 DEF SettingsInv, Tracked, metaVars

\* Where each request sets formulas, flags, rates and states, it sets them to
\* what they may be.
LEMMA SettingsStep ==
  ASSUME AccInv, SettingsInv, [Next]_vars
  PROVE  SettingsInv'
<1>1. ASSUME UNCHANGED <<expr, dynamic, scen, rates, status>>, DOMAIN acc \subseteq DOMAIN acc'
      PROVE  SettingsInv'
  BY <1>1 DEF SettingsInv
<1>2. ASSUME NEW us, NEW a \in Actions, status' = Tracked(us, a), UNCHANGED metaVars
      PROVE  SettingsInv'
  BY <1>2, TrackedKeepsSettings
<1>3. ASSUME NEW us, status' = Forgotten(us), UNCHANGED <<expr, dynamic, rates, acc>>,
             scen' \subseteq scen
      PROVE  SettingsInv'
  BY <1>3 DEF SettingsInv, Forgotten, Restricted
<1>4. ASSUME NEW x, NEW f \in Exprs \cup {NoExpr}, NEW d \in BOOLEAN,
             expr' = WithFormula(x, f), dynamic' = WithDynamic(x, d),
             x \in DOMAIN acc', DOMAIN acc \subseteq DOMAIN acc', UNCHANGED <<scen, rates, status>>
      PROVE  SettingsInv'
  <2>1. \A a \in DOMAIN expr' : LinearForm(expr'[a])
    BY <1>4, SettingsAssumption DEF WithFormula, Restricted, SettingsInv
  <2>2. dynamic' \subseteq DOMAIN acc'
    BY <1>4 DEF WithDynamic, SettingsInv
  <2> QED BY <1>4, <2>1, <2>2 DEF SettingsInv
<1>5. CASE DataStep
  <2>1. "import" \in Actions
    BY DEF Actions
  <2> QED BY <1>1, <1>2, <1>5, <2>1 DEF DataStep, DataCells, ImportCommit, TrackedImport, metaVars
<1>6. CASE FlowStep
  BY <1>1, <1>2, <1>6 DEF FlowStep, ManualProcess, WorkflowAction, metaVars
<1>7. CASE EntityStep
  <2>1. ASSUME NEW x, NEW recursive, DeleteEntity(x, recursive)
        PROVE  SettingsInv'
    <3>1. status' = Forgotten(Slices \X Subtree(ent, x)) /\ UNCHANGED <<expr, dynamic, rates, acc, scen>>
      BY <2>1 DEF DeleteEntity
    <3> QED BY <1>3, <3>1
  <2> QED BY <1>1, <1>7, <2>1 DEF EntityStep, AddEntity, MoveEntity
<1>8. CASE AccountStep
  <2>1. ASSUME NEW x, NEW p, NEW f \in Exprs \cup {NoExpr}, NEW d \in BOOLEAN, AddAccount(x, p, f, d)
        PROVE  SettingsInv'
    <3>1. /\ expr' = WithFormula(x, f) /\ dynamic' = WithDynamic(x, d)
          /\ x \in DOMAIN acc' /\ DOMAIN acc \subseteq DOMAIN acc' /\ UNCHANGED <<scen, rates, status>>
      BY <2>1 DEF AddAccount, Added
    <3> QED BY <1>4, <3>1
  <2>2. ASSUME NEW x, NEW p, NEW f \in Exprs \cup {NoExpr}, NEW d \in BOOLEAN, UpdateAccount(x, p, f, d)
        PROVE  SettingsInv'
    <3>1. /\ expr' = WithFormula(x, f) /\ dynamic' = WithDynamic(x, d)
          /\ x \in DOMAIN acc' /\ DOMAIN acc \subseteq DOMAIN acc' /\ UNCHANGED <<scen, rates, status>>
      BY <2>2 DEF UpdateAccount, Moved, Has
    <3> QED BY <1>4, <3>1
  <2>3. ASSUME NEW x, NEW recursive, DeleteAccount(x, recursive)
        PROVE  SettingsInv'
    <3> DEFINE doomed == Subtree(acc, x)
    <3>1. /\ expr' = Restricted(expr, DOMAIN expr \ doomed) /\ dynamic' = dynamic \ doomed
          /\ DOMAIN acc' = DOMAIN acc \ doomed /\ UNCHANGED <<scen, rates, status>>
      BY <2>3 DEF DeleteAccount, Restricted
    <3> HIDE DEF doomed
    <3> QED BY <3>1 DEF SettingsInv, Restricted
  <2> QED BY <1>8, <2>1, <2>2, <2>3 DEF AccountStep
<1>9. CASE FormulaStep
  <2>1. PICK a \in FormulaTargets, f \in Exprs \cup {NoExpr}, d \in BOOLEAN : FormulaPut(a, f, d)
    BY <1>9 DEF FormulaStep
  <2>2. PICK flag \in BOOLEAN : dynamic' = WithDynamic(a, flag)
    BY <2>1 DEF FormulaPut
  <2> QED BY <1>4, <2>1, <2>2 DEF FormulaPut, Has
<1>10. CASE ScenarioStep
  <2>1. ASSUME NEW x \in EditScenarios, AddScenario(x)
        PROVE  SettingsInv'
    BY <2>1, SettingsAssumption DEF AddScenario, SettingsInv
  <2>2. ASSUME NEW x, DeleteScenario(x)
        PROVE  SettingsInv'
    <3>1. /\ status' = Forgotten(SlicesOf(x) \X Entities) /\ UNCHANGED <<expr, dynamic, rates, acc>>
          /\ scen' \subseteq scen
      BY <2>2 DEF DeleteScenario
    <3> QED BY <1>3, <3>1
  <2> QED BY <1>10, <2>1, <2>2 DEF ScenarioStep
<1>11. CASE RatesStep
  <2>1. PICK s \in Slices, list \in RateLists : RatesPut(s, list)
    BY <1>11 DEF RatesStep
  <2>2. RateTable(WithRates(s, list))
    BY SettingsAssumption DEF RateTable, WithRates, SettingsInv
  <2> QED BY <2>1, <2>2 DEF RatesPut, SettingsInv
<1>12. CASE UNCHANGED vars
  BY <1>1, <1>12 DEF vars
<1> QED BY <1>5, <1>6, <1>7, <1>8, <1>9, <1>10, <1>11, <1>12 DEF Next

LEMMA IntegrityInit == Init => IntegrityInv
<1> SUFFICES ASSUME Init PROVE IntegrityInv
  OBVIOUS
<1>1. ent = InitEnt /\ acc = InitAcc /\ units = [s \in Slices |-> [e \in Entities |-> NoUnit]]
      /\ status = [u \in {} |-> "NotStarted"]
  BY DEF Init
<1>2. EntInv /\ DOMAIN acc \subseteq Accounts
  BY <1>1, MetadataAssumption DEF EntInv
<1>3. CellsInv
  BY <1>1, EmptyUnitFits DEF CellsInv
<1>4. FlowInv
  BY <1>1 DEF FlowInv
<1> QED BY <1>2, <1>3, <1>4, LeafInvInit, SettingsInit DEF IntegrityInv

\* Every request keeps the tree and what the stages refer to.
LEMMA StagesKept ==
  ASSUME IntegrityInv, [Next]_vars
  PROVE  EntInv' /\ DOMAIN acc' \subseteq Accounts /\ CellsInv'
<1> USE DEF IntegrityInv
<1> DEFINE Kept == EntInv' /\ DOMAIN acc' \subseteq Accounts /\ CellsInv'
<1>2. CASE UNCHANGED <<ent, acc, scen, units>>
  BY <1>2, NothingTaken DEF EntInv
<1>3. CASE DataStep
  <2>1. UNCHANGED metaVars
    BY <1>3 DEF DataStep, DataCells, ImportCommit
  <2>2. ASSUME NEW rows \in Lists(Rows, MaxRows)
        PROVE  Addable(rows)
    <3>1. PICK k \in 1 .. MaxRows : rows \in [1 .. k -> Rows]
      BY DEF Lists
    <3>2. IsFiniteSet(1 .. k)
      BY FS_Interval
    <3> QED BY <3>1, <3>2, DataAssumption DEF Addable
  <2> QED BY <1>3, <2>1, <2>2, BatchFits, CommitFits DEF DataStep, metaVars, EntInv
<1>4. CASE FlowStep
  <2>1. UNCHANGED metaVars /\ (UNCHANGED units \/ \E s \in Slices : RunProcess(s))
    BY <1>4 DEF FlowStep, ManualProcess, WorkflowAction
  <2> QED BY <1>2, <2>1, ProcessRunFits DEF metaVars, EntInv
<1>5. CASE EntityStep
  <2>1. ASSUME NEW x \in EditEntities, NEW p \in Entities \cup {NoParent},
               AddEntity(x, p) \/ MoveEntity(x, p)
        PROVE  Kept
    <3>1. EntInv' /\ DOMAIN ent \subseteq DOMAIN ent'
      BY <2>1, EntityTreeKept
    <3>2. UNCHANGED <<acc, scen, units>>
      BY <2>1 DEF AddEntity, MoveEntity
    <3> QED BY <3>1, <3>2, NothingTaken
  <2>2. ASSUME NEW x \in EditEntities, NEW recursive \in BOOLEAN, DeleteEntity(x, recursive)
        PROVE  Kept
    <3>1. acc' = acc
      BY <2>2 DEF DeleteEntity
    <3> QED BY <2>2, <3>1, DeleteEntityFits
  <2> QED BY <1>5, <2>1, <2>2 DEF EntityStep
<1>6. CASE AccountStep
  <2>1. ASSUME NEW x \in EditAccounts, NEW p, NEW f, NEW d, AddAccount(x, p, f, d) \/ UpdateAccount(x, p, f, d)
        PROVE  Kept
    <3>1. DOMAIN acc \subseteq DOMAIN acc' /\ DOMAIN acc' \subseteq DOMAIN acc \cup {x}
          /\ UNCHANGED <<ent, scen, units>>
      BY <2>1 DEF AddAccount, UpdateAccount, Added, Moved
    <3>2. DOMAIN acc' \subseteq Accounts
      BY <3>1, MetadataAssumption
    <3> QED BY <3>1, <3>2, NothingTaken DEF EntInv
  <2>2. ASSUME NEW x, NEW recursive, DeleteAccount(x, recursive)
        PROVE  Kept
    <3>1. DOMAIN acc' \subseteq DOMAIN acc /\ ent' = ent
      BY <2>2 DEF DeleteAccount, Restricted
    <3> QED BY <2>2, <3>1, DeleteAccountFits DEF EntInv
  <2> QED BY <1>6, <2>1, <2>2 DEF AccountStep
<1>7. CASE FormulaStep
  BY <1>2, <1>7 DEF FormulaStep, FormulaPut
<1>8. CASE ScenarioStep
  <2>1. ASSUME NEW x, AddScenario(x)
        PROVE  Kept
    BY <2>1, NothingTaken DEF AddScenario, EntInv
  <2>2. ASSUME NEW x, DeleteScenario(x)
        PROVE  Kept
    BY <2>2, DeleteScenarioFits DEF DeleteScenario, EntInv
  <2> QED BY <1>8, <2>1, <2>2 DEF ScenarioStep
<1>9. CASE RatesStep
  BY <1>2, <1>9 DEF RatesStep, RatesPut
<1>10. CASE UNCHANGED vars
  BY <1>2, <1>10 DEF vars
<1> QED BY <1>3, <1>4, <1>5, <1>6, <1>7, <1>8, <1>9, <1>10 DEF Next

LEMMA IntegrityStep == IntegrityInv /\ [Next]_vars => IntegrityInv'
  BY LeafInvStep, SettingsStep, StagesKept, FlowStepKept DEF IntegrityInv, LeafInv

LEMMA Integrity == Spec => []IntegrityInv
  BY IntegrityInit, IntegrityStep, PTL DEF Spec

LEMMA NamesAreGood == IntegrityInv => NoDanglingRefs
<1> SUFFICES ASSUME IntegrityInv PROVE NoDanglingRefs
  OBVIOUS
<1>1. ASSUME NEW s \in Slices, NEW e \in Entities, NEW st \in Stages, NEW c \in DOMAIN units[s][e][st]
      PROVE  s[1] \in scen /\ Has(ent, e) /\ Has(acc, c.acct) /\ (c.ic = None \/ Has(ent, c.ic))
  <2>1. c \in Named(s, e)
    BY DEF IntegrityInv, CellsInv, Fits
  <2> QED BY <2>1 DEF Named, Known
<1>2. \A u \in DOMAIN status : u[1][1] \in scen /\ Has(ent, u[2])
  BY DEF IntegrityInv, FlowInv
<1> QED BY <1>1, <1>2 DEF NoDanglingRefs

(* Neither a cell of any stage nor a workflow entry ever names a member    *)
(* that does not exist: deletions are refused while Input refers to what   *)
(* they take and purge the rest, and the engine posts eliminations and     *)
(* calculated cells under names of the metadata only.                      *)
THEOREM NamesStayGood == Spec => []NoDanglingRefs
  BY NamesAreGood, Integrity, PTL

LEMMA StagesAreSavable == IntegrityInv => SnapshotSavable
  BY DEF IntegrityInv, CellsInv, Fits, SnapshotSavable

(* No stage of any unit ever holds an amount that would make a save of the *)
(* snapshot fail, whatever finite amounts users enter and import and       *)
(* whatever formulas, rates, eliminations and consolidations make of them. *)
THEOREM SnapshotStaysSavable == Spec => []SnapshotSavable
  BY StagesAreSavable, Integrity, PTL

-----------------------------------------------------------------------------
(* What the engine promises of a slice.                                    *)

\* An elimination cell never reaches Input.
InputInv == \A s \in Slices, e \in Entities : DOMAIN units[s][e]["Input"] \subseteq InputCoords

LEMMA InputKept ==
  ASSUME \A s \in Slices, e \in Entities :
           DOMAIN units'[s][e]["Input"] \subseteq DOMAIN units[s][e]["Input"] \cup InputCoords,
         InputInv
  PROVE  InputInv'
  BY DEF InputInv

LEMMA KeepTakesNothingOn == \A f : DOMAIN Keep(f) \subseteq DOMAIN f
  BY KeepFacts

LEMMA InputOfBatch ==
  ASSUME CellsInv, InputInv, NEW batch \in Lists(Writes, MaxBatch), DataCells(batch)
  PROVE  InputInv'
<1>1. ASSUME NEW s \in Slices, NEW e \in Entities
      PROVE  DOMAIN units'[s][e]["Input"] \subseteq DOMAIN units[s][e]["Input"] \cup InputCoords
  <2> DEFINE here == {i \in DOMAIN batch : <<batch[i].slice, batch[i].entity>> = <<s, e>>}
  <2>1. units'[s][e]["Input"] = Written(batch, <<s, e>>)
    BY DEF DataCells, WriteAll, CellsInv, Stages
  <2>2. DOMAIN Written(batch, <<s, e>>) \subseteq DOMAIN units[s][e]["Input"] \cup {batch[i].coord : i \in here}
    BY KeepTakesNothingOn DEF Written, Overwritten
  <2>3. ASSUME NEW i \in DOMAIN batch PROVE batch[i].coord \in InputCoords
    <3>1. batch[i] \in Writes
      BY DEF Lists
    <3>2. batch[i].coord \in Coords /\ batch[i].coord.origin \in UserOrigins
      BY <3>1, DataAssumption DEF DataCells, ValidWrite, ValidCell
    <3> QED BY <3>2 DEF InputCoords, UserOrigins
  <2> QED BY <2>1, <2>2, <2>3
<1> QED BY <1>1, InputKept

LEMMA InputOfCommit ==
  ASSUME EntInv, DOMAIN acc \subseteq Accounts, CellsInv, InputInv, NEW rows, ImportCommit(rows)
  PROVE  InputInv'
<1> DEFINE planned == {RowUnit(rows[i]) : i \in CleanRows(rows)}
<1>1. units' = [s \in Slices |-> [e \in Entities |->
                  IF <<s, e>> \in planned
                  THEN [units[s][e] EXCEPT !["Input"] = Loaded(rows, <<s, e>>)]
                  ELSE units[s][e]]]
  BY DEF ImportCommit
<1> HIDE DEF planned
<1>2. ASSUME NEW i \in CleanRows(rows)
      PROVE  ImportCoord(rows[i]) \in InputCoords
  <2> DEFINE c == ImportCoord(rows[i])
  <2>1. ValidCell(rows[i].slice, rows[i].entity, c)
    BY DEF CleanRows
  <2>2. Has(acc, c.acct) /\ (c.ic = None \/ Has(ent, c.ic))
    BY <2>1 DEF ValidCell, IsLeaf
  <2>3. c.acct \in Accounts /\ c.ic \in Entities \cup {None}
    BY <2>2 DEF EntInv, Has
  <2> QED BY <2>3 DEF ImportCoord, InputCoords, Coords, Origins, UserOrigins
<1>3. ASSUME NEW s \in Slices, NEW e \in Entities
      PROVE  DOMAIN units'[s][e]["Input"] \subseteq DOMAIN units[s][e]["Input"] \cup InputCoords
  <2> DEFINE u       == <<s, e>>
             cleared == ClearOrigin(units[s][e]["Input"], "Import")
             coords  == {ImportCoord(rows[i]) : i \in {j \in CleanRows(rows) : RowUnit(rows[j]) = u}}
  <2>1. units'[s][e]["Input"] \in {Loaded(rows, u), units[s][e]["Input"]}
    BY <1>1 DEF CellsInv, Stages
  <2>2. DOMAIN Loaded(rows, u) \subseteq DOMAIN cleared \cup coords
    BY KeepTakesNothingOn DEF Loaded
  <2>3. DOMAIN cleared \subseteq DOMAIN units[s][e]["Input"]
    BY DEF ClearOrigin
  <2>4. coords \subseteq InputCoords
    BY <1>2
  <2> QED BY <2>1, <2>2, <2>3, <2>4
<1> QED BY <1>3, InputKept

LEMMA InputOfRun ==
  ASSUME LeafInv, EntInv, DOMAIN acc \subseteq Accounts, SettingsInv, CellsInv, InputInv,
         NEW z \in Slices, RunProcess(z)
  PROVE  InputInv'
<1> DEFINE meta == MetaAt(z)
           us   == units[z]
           p    == Process(meta, us)
<1>1. units' = [units EXCEPT ![z] = p]
  BY DEF RunProcess
<1> DEFINE K == Known(z) \cap InputCoords
<1>2. Calculable(meta, K)
  <2>1. Exact(meta) /\ IsFiniteSet(Known(z))
        /\ \A c \in Known(z), t \in DOMAIN meta.formulas : CalcCell(t, c.ic) \in Known(z)
    BY RunCovers DEF Covers, Calculable
  <2>2. \A c, t : CalcCell(t, c.ic) \in Known(z) => CalcCell(t, c.ic) \in InputCoords
    BY DEF Known, CalcCell, InputCoords
  <2>3. IsFiniteSet(K)
    BY <2>1, FS_Subset
  <2> HIDE DEF meta
  <2> QED BY <2>1, <2>2, <2>3 DEF Calculable
<1>3. IsFiniteSet(DOMAIN meta.formulas)
  BY FinitelyManyFormulas
<1>4. ASSUME NEW e \in Entities
      PROVE  DOMAIN p[e]["Input"] \subseteq InputCoords
  <2>1. Fits(us[e]["Input"], K)
    BY DEF CellsInv, InputInv, Fits, Stages, Named
  <2> HIDE DEF meta, us, K
  <2>2. Fits(p[e]["Input"], K)
    BY <1>2, <1>3, <2>1, ProcessInputFits
  <2> QED BY <2>2 DEF Fits, K
<1> HIDE DEF p
<1>5. \A s \in Slices : units'[s] = IF s = z THEN p ELSE units[s]
  BY <1>1 DEF CellsInv
<1> QED BY <1>4, <1>5, InputKept

LEMMA InputStep == IntegrityInv /\ InputInv /\ [Next]_vars => InputInv'
<1> SUFFICES ASSUME IntegrityInv, InputInv, [Next]_vars PROVE InputInv'
  OBVIOUS
<1> USE DEF IntegrityInv
<1>1. CASE units' = units
  BY <1>1, InputKept
<1>2. ASSUME NEW x,
             \/ \E recursive : DeleteEntity(x, recursive) \/ DeleteAccount(x, recursive)
             \/ DeleteScenario(x)
      PROVE  InputInv'
  <2>1. ASSUME NEW u, NEW naming
        PROVE  DOMAIN Purged(u, naming)["Input"] \subseteq DOMAIN u["Input"]
    BY DEF Purged, Stages
  <2>2. DOMAIN NoUnit["Input"] = {}
    BY DEF NoUnit, Stages, Empty
  <2>3. ASSUME NEW s \in Slices, NEW e \in Entities
        PROVE  \/ units'[s][e] = NoUnit \/ units'[s][e] = units[s][e]
               \/ \E naming : units'[s][e] = Purged(units[s][e], naming)
    <3>1. ASSUME NEW recursive, DeleteEntity(x, recursive)
          PROVE  units'[s][e] = NoUnit \/ \E naming : units'[s][e] = Purged(units[s][e], naming)
      <4> DEFINE doomed == Subtree(ent, x)
                 naming == {c \in Coords : c.ic \in doomed}
      <4>1. units' = [z \in Slices |-> [y \in Entities |->
                        IF y \in doomed THEN NoUnit ELSE Purged(units[z][y], naming)]]
        BY <3>1 DEF DeleteEntity
      <4> HIDE DEF doomed, naming
      <4> QED BY <4>1
    <3>2. ASSUME NEW recursive, DeleteAccount(x, recursive)
          PROVE  \E naming : units'[s][e] = Purged(units[s][e], naming)
      <4> DEFINE naming == {c \in Coords : c.acct \in Subtree(acc, x)}
      <4>1. units' = [z \in Slices |-> [y \in Entities |-> Purged(units[z][y], naming)]]
        BY <3>2 DEF DeleteAccount
      <4> HIDE DEF naming
      <4> QED BY <4>1
    <3>3. ASSUME DeleteScenario(x)
          PROVE  units'[s][e] = NoUnit \/ units'[s][e] = units[s][e]
      BY <3>3 DEF DeleteScenario
    <3> QED BY <1>2, <3>1, <3>2, <3>3
  <2>4. ASSUME NEW s \in Slices, NEW e \in Entities
        PROVE  DOMAIN units'[s][e]["Input"] \subseteq DOMAIN units[s][e]["Input"]
    BY <2>1, <2>2, <2>3
  <2> QED BY <2>4, InputKept
<1>3. CASE DataStep
  BY <1>3, InputOfBatch, InputOfCommit DEF DataStep
<1>4. CASE FlowStep
  BY <1>1, <1>4, InputOfRun DEF FlowStep, ManualProcess, WorkflowAction
<1>5. CASE EntityStep
  BY <1>1, <1>2, <1>5 DEF EntityStep, AddEntity, MoveEntity
<1>6. CASE AccountStep
  BY <1>1, <1>2, <1>6 DEF AccountStep, AddAccount, UpdateAccount
<1>7. CASE FormulaStep
  BY <1>1, <1>7 DEF FormulaStep, FormulaPut
<1>8. CASE ScenarioStep
  BY <1>1, <1>2, <1>8 DEF ScenarioStep, AddScenario
<1>9. CASE RatesStep
  BY <1>1, <1>9 DEF RatesStep, RatesPut
<1>10. CASE UNCHANGED vars
  BY <1>1, <1>10 DEF vars
<1> QED BY <1>3, <1>4, <1>5, <1>6, <1>7, <1>8, <1>9, <1>10 DEF Next

LEMMA InputAlways == Spec => []InputInv
<1>1. Init => InputInv
  BY DEF Init, InputInv, NoUnit, Stages, Empty
<1> QED BY <1>1, InputStep, Integrity, PTL DEF Spec

LEMMA RunForgetsHistory == IntegrityInv /\ InputInv => HistoryIndependent
<1> SUFFICES ASSUME IntegrityInv, InputInv, NEW s \in Slices
             PROVE  Processed(s) = Process(MetaAt(s), Pristine(units[s]))
  BY DEF HistoryIndependent
<1>1. ASSUME NEW e \in Entities
      PROVE  ClearOrigin(units[s][e]["Input"], "Calc") = ClearOrigin(Pristine(units[s])[e]["Input"], "Calc")
  <2> DEFINE m == units[s][e]["Input"]
             n == UserCells(m)
  <2>1. \A c \in DOMAIN m : c.origin # "Calc" <=> c.origin \in UserOrigins
    BY DEF InputInv, InputCoords, Coords, Origins, UserOrigins
  <2>2. Pristine(units[s])[e]["Input"] = n
    BY DEF Pristine, NoUnit, Stages
  <2> HIDE DEF m
  <2>3. {x \in DOMAIN m : x.origin # "Calc"} = {x \in DOMAIN m : x.origin \in UserOrigins}
    BY <2>1
  <2>4. ClearOrigin(m, "Calc") = n
    BY <2>3 DEF ClearOrigin, UserCells
  <2>5. DOMAIN n = {x \in DOMAIN m : x.origin \in UserOrigins} /\ n = [c \in DOMAIN n |-> n[c]]
    BY DEF UserCells
  <2>6. {x \in DOMAIN n : x.origin # "Calc"} = DOMAIN n
    BY <2>3, <2>5
  <2> HIDE DEF n
  <2>7. ClearOrigin(n, "Calc") = n
    BY <2>5, <2>6 DEF ClearOrigin
  <2> QED BY <2>2, <2>4, <2>7 DEF m
<1> DEFINE us == units[s]
           vs == Pristine(us)
           meta == MetaAt(s)
<1> HIDE DEF vs, meta
<1>2. Process(meta, us) = Process(meta, vs)
  BY <1>1, ProcessReadsInput DEF vs
<1> QED BY <1>2 DEF Processed, vs, meta

(* Process rebuilds everything it derives: its result depends on what      *)
(* users entered, and not on the Calc cells and stages that earlier runs   *)
(* under earlier metadata left behind.                                     *)
THEOREM ProcessForgetsHistory == Spec => []HistoryIndependent
  BY RunForgetsHistory, Integrity, InputAlways, PTL

LEMMA CalcAgrees == IntegrityInv => CalcConsistent
<1> SUFFICES ASSUME IntegrityInv, NEW s \in Slices, NEW e \in Entities, ~ProcessFails(MetaAt(s)),
                    NEW t \in DOMAIN MetaAt(s).formulas, NEW i \in Entities \cup {None}
             PROVE  LET meta  == MetaAt(s)
                        input == Processed(s)[e]["Input"]
                    IN  Val(input, [acct |-> t, origin |-> "Calc", ic |-> i])
                          = IF i \in Tuples(meta, input, meta.formulas[t])
                            THEN Writable(EvalFormula(meta, input, meta.formulas[t], i)) ELSE 0
  BY DEF CalcConsistent
<1> DEFINE meta == MetaAt(s)
           us   == units[s]
           input == Process(meta, us)[e]["Input"]
           f == meta.formulas[t]
<1>1. IsFiniteSet(DOMAIN meta.formulas)
  BY FinitelyManyFormulas DEF IntegrityInv
<1>2. NonZero(us[e]["Input"])
  BY DEF IntegrityInv, CellsInv, Fits, Stages, NonZero
<1>3. Processed(s) = Process(meta, us)
  BY DEF Processed
<1> HIDE DEF meta, us
<1>4. Val(input, CalcCell(t, i)) = IF i \in Tuples(meta, input, f)
                                   THEN Writable(EvalFormula(meta, input, f, i)) ELSE 0
  BY <1>1, <1>2, FormulasAgreeWithInput DEF meta
<1> HIDE DEF input, f
<1> QED BY <1>3, <1>4 DEF CalcCell, input, meta, f

(* runStoredCalcs orders the formulas so that after a run each Calc cell   *)
(* agrees with its formula over the final Input: no formula read another's *)
(* result, even through a common ancestor, before it was there.            *)
THEOREM CalcAgreesWithInput == Spec => []CalcConsistent
  BY CalcAgrees, Integrity, PTL

LEMMA ShapeIsRight == IntegrityInv /\ InputInv => TypeOK
<1> SUFFICES ASSUME IntegrityInv, InputInv PROVE TypeOK
  OBVIOUS
<1> USE DEF IntegrityInv
<1>1. Tree(ent, Entities) /\ Tree(acc, Accounts)
  BY DEF Tree, EntInv, LeafInv, AccInv, Closed
<1>2. /\ DOMAIN expr \subseteq DOMAIN acc /\ dynamic \subseteq DOMAIN acc /\ scen \subseteq Scenarios
      /\ \A s \in Slices : RateTable(rates[s])
  BY DEF LeafInv, AccInv, SettingsInv
<1>3. \A s \in Slices, e \in Entities, st \in Stages : CellMap(units[s][e][st])
  <2>1. \A s, e : Named(s, e) \subseteq Coords
    BY DEF Named, Known
  <2> QED BY <2>1 DEF CellsInv, Fits, Whole, CellMap
<1>4. \A s \in Slices, e \in Entities : DOMAIN units[s][e]["Input"] \subseteq InputCoords
  BY DEF InputInv
<1>5. DOMAIN status \subseteq UnitKeys /\ \A u \in DOMAIN status : status[u] \in Statuses
  BY DEF FlowInv, SettingsInv
<1> QED BY <1>1, <1>2, <1>3, <1>4, <1>5 DEF TypeOK

(* The state has its shape: every stage holds non-zero whole amounts at    *)
(* coordinates there are, Input no elimination cell, and the metadata and  *)
(* the registry refer to each other's names.                               *)
THEOREM TypeCorrect == Spec => []TypeOK
  BY ShapeIsRight, Integrity, InputAlways, PTL

-----------------------------------------------------------------------------
(* Imports.                                                                *)

\* A request of the import pipeline that the server does not know already is
\* the commit of a file.
LEMMA StagingIsServing ==
  ASSUME [StagingNext]_stagingVars
  PROVE  \/ [Next]_vars
         \/ \E n \in ProfileNames, file \in Files : Commit(n, file)
<1>1. CASE OtherRequest
  BY <1>1 DEF OtherRequest, Next, DataStep
<1>2. CASE UNCHANGED stagingVars
  BY <1>2 DEF stagingVars, vars
<1>3. ASSUME NEW n, NEW p, ProfilePost(n, p) \/ ProfilePut(n, p) \/ ProfileDelete(n)
      PROVE  UNCHANGED vars
  BY <1>3 DEF ProfilePost, ProfilePut, ProfileDelete
<1> QED BY <1>1, <1>2, <1>3 DEF StagingNext

\* Cells that agree are imported cells that agree.
LEMMA ImportCellsEqual ==
  ASSUME NEW m, NEW n,
         \A c : c.origin = "Import" => /\ c \in DOMAIN m <=> c \in DOMAIN n
                                       /\ c \in DOMAIN m => m[c] = n[c]
  PROVE  ImportCells(m) = ImportCells(n)
<1> DEFINE M == {x \in DOMAIN m : x.origin = "Import"}
           N == {x \in DOMAIN n : x.origin = "Import"}
<1>1. M = N /\ \A c \in M : m[c] = n[c]
  OBVIOUS
<1>2. [c \in M |-> m[c]] = [c \in N |-> n[c]]
  BY <1>1
<1> QED BY <1>2 DEF ImportCells

LEMMA KeptImportsEqual ==
  ASSUME NEW f, NEW g,
         \A c : c.origin = "Import" => /\ c \in DOMAIN f <=> c \in DOMAIN g
                                       /\ c \in DOMAIN f => f[c] = g[c]
  PROVE  ImportCells(Keep(f)) = ImportCells(Keep(g))
<1>1. /\ DOMAIN Keep(f) = {x \in DOMAIN f : f[x] # 0}
      /\ \A x \in DOMAIN Keep(f) : Keep(f)[x] = f[x]
      /\ DOMAIN Keep(g) = {x \in DOMAIN g : g[x] # 0}
      /\ \A x \in DOMAIN Keep(g) : Keep(g)[x] = g[x]
  BY KeepFacts
<1>2. ASSUME NEW c, c.origin = "Import"
      PROVE  /\ c \in DOMAIN Keep(f) <=> c \in DOMAIN Keep(g)
             /\ c \in DOMAIN Keep(f) => Keep(f)[c] = Keep(g)[c]
  BY <1>1, <1>2
<1> QED BY <1>2, ImportCellsEqual

\* Imported cells are cells of users.
LEMMA UserCellsHoldImports ==
  ASSUME NEW m, NEW n, UserCells(m) = UserCells(n)
  PROVE  ImportCells(m) = ImportCells(n)
<1>1. "Import" \in UserOrigins
  BY DEF UserOrigins
<1>2. \A k : DOMAIN UserCells(k) = {x \in DOMAIN k : x.origin \in UserOrigins}
             /\ \A c \in DOMAIN UserCells(k) : UserCells(k)[c] = k[c]
  BY DEF UserCells
<1>3. ASSUME NEW c, c.origin = "Import"
      PROVE  (c \in DOMAIN m <=> c \in DOMAIN n) /\ (c \in DOMAIN m => m[c] = n[c])
  BY <1>1, <1>2, <1>3
<1> QED BY <1>3, ImportCellsEqual

\* What a batch leaves of the imported cells can be told from them alone.
LEMMA BatchOnImports ==
  ASSUME NEW m, NEW batch, NEW u
  PROVE  ImportCells(Overwritten(ImportCells(m), batch, u)) = ImportCells(Overwritten(m, batch, u))
<1> DEFINE here    == {i \in DOMAIN batch : <<batch[i].slice, batch[i].entity>> = u}
           to(c)   == {i \in here : batch[i].coord = c}
           last(c) == CHOOSE i \in to(c) : \A j \in to(c) : j <= i
           W       == {batch[i].coord : i \in here}
           on(k)   == [c \in DOMAIN k \cup W |-> IF to(c) = {} THEN k[c] ELSE batch[last(c)].value]
<1>1. \A k : Overwritten(k, batch, u) = Keep(on(k))
  BY DEF Overwritten
<1>2. DOMAIN ImportCells(m) = {x \in DOMAIN m : x.origin = "Import"}
      /\ \A c \in DOMAIN ImportCells(m) : ImportCells(m)[c] = m[c]
  BY DEF ImportCells
<1>3. \A k : /\ DOMAIN on(k) = DOMAIN k \cup W
             /\ \A c \in DOMAIN k \cup W : on(k)[c] = IF to(c) = {} THEN k[c] ELSE batch[last(c)].value
  OBVIOUS
<1>4. \A c : to(c) = {} => c \notin W
  OBVIOUS
<1> HIDE DEF to, last, on, W
<1>5. ASSUME NEW c, c.origin = "Import"
      PROVE  /\ c \in DOMAIN on(ImportCells(m)) <=> c \in DOMAIN on(m)
             /\ c \in DOMAIN on(m) => on(ImportCells(m))[c] = on(m)[c]
  BY <1>2, <1>3, <1>4, <1>5
<1> DEFINE A == on(ImportCells(m))
           B == on(m)
<1>6. \A c : c.origin = "Import" => /\ c \in DOMAIN A <=> c \in DOMAIN B
                                    /\ c \in DOMAIN A => A[c] = B[c]
  BY <1>5
<1>7. Overwritten(ImportCells(m), batch, u) = Keep(A) /\ Overwritten(m, batch, u) = Keep(B)
  BY <1>1
<1> HIDE DEF A, B
<1> QED BY <1>6, <1>7, KeptImportsEqual

\* What a commit loads into a unit is what its rows say, and nothing else.
LEMMA LoadedIsMeant ==
  ASSUME NEW rows, NEW s, NEW e
  PROVE  ImportCells(Loaded(rows, <<s, e>>)) = Meant(rows, <<s, e>>)
<1> DEFINE u       == <<s, e>>
           own     == {i \in CleanRows(rows) : RowUnit(rows[i]) = u}
           cleared == ClearOrigin(units[s][e]["Input"], "Import")
           coords  == {ImportCoord(rows[i]) : i \in own}
           all     == [c \in DOMAIN cleared \cup coords |->
                         IF c \in coords THEN Planned(rows, u, c) ELSE cleared[c]]
           said    == [c \in coords |->
                         SumFunction([i \in {j \in own : ImportCoord(rows[j]) = c} |-> rows[i].amount])]
<1>1. Loaded(rows, u) = Keep(all)
  BY DEF Loaded
<1>2. Meant(rows, u) = Keep(said)
  BY DEF Meant
<1>3. ASSUME NEW c
      PROVE  Planned(rows, u, c)
               = SumFunction([i \in {j \in own : ImportCoord(rows[j]) = c} |-> rows[i].amount])
  <2>1. {j \in CleanRows(rows) : RowUnit(rows[j]) = u /\ ImportCoord(rows[j]) = c}
          = {j \in own : ImportCoord(rows[j]) = c}
    OBVIOUS
  <2> HIDE DEF own
  <2> QED BY <2>1 DEF Planned
<1>4. \A c \in coords : c.origin = "Import"
  <2>1. \A r : ImportCoord(r).origin = "Import"
    BY DEF ImportCoord
  <2> QED BY <2>1
<1>5. \A c \in DOMAIN cleared : c.origin # "Import"
  BY DEF ClearOrigin
<1>6. /\ DOMAIN all = DOMAIN cleared \cup coords
      /\ DOMAIN said = coords
      /\ \A c \in coords : all[c] = said[c]
  BY <1>3
<1> HIDE DEF all, said, coords, cleared
<1>7. \A c : c.origin = "Import" => /\ c \in DOMAIN all <=> c \in DOMAIN said
                                    /\ c \in DOMAIN all => all[c] = said[c]
  BY <1>5, <1>6
<1>8. ImportCells(Keep(all)) = ImportCells(Keep(said))
  BY <1>7, KeptImportsEqual
<1>9. ImportCells(Keep(said)) = Keep(said)
  <2> DEFINE k == Keep(said)
  <2>1. \A c \in DOMAIN k : c.origin = "Import"
    BY <1>4, <1>6, KeepFacts
  <2>2. k = [c \in DOMAIN k |-> k[c]]
    BY DEF Keep
  <2> HIDE DEF k
  <2>3. {x \in DOMAIN k : x.origin = "Import"} = DOMAIN k
    BY <2>1
  <2>4. ImportCells(k) = k
    BY <2>2, <2>3 DEF ImportCells
  <2> QED BY <2>4 DEF k
<1> QED BY <1>1, <1>2, <1>8, <1>9

MirrorInv == LeafInv /\ DataInv /\ ImportMirrorsLastCommit

LEMMA MirrorInvInit == StagingInit => MirrorInv
<1> SUFFICES ASSUME StagingInit PROVE MirrorInv
  OBVIOUS
<1>1. Init /\ loaded = [u \in UnitKeys |-> Empty]
  BY DEF StagingInit
<1>2. ASSUME NEW u \in UnitKeys
      PROVE  ImportCells(units[u[1]][u[2]]["Input"]) = loaded[u]
  <2>1. units[u[1]][u[2]]["Input"] = Empty
    BY <1>1 DEF Init, NoUnit, Stages, UnitKeys
  <2>2. ImportCells(Empty) = Empty
    <3>1. {x \in DOMAIN Empty : x.origin = "Import"} = {}
      BY DEF Empty
    <3>2. ImportCells(Empty) = [c \in {} |-> Empty[c]]
      BY <3>1 DEF ImportCells
    <3>3. [c \in {} |-> Empty[c]] = [c \in {} |-> 0]
      OBVIOUS
    <3> QED BY <3>2, <3>3 DEF Empty
  <2> QED BY <1>1, <2>1, <2>2
<1> QED BY <1>1, <1>2, LeafInvInit, DataInvInit DEF MirrorInv, ImportMirrorsLastCommit

LEMMA MirrorInvStep == MirrorInv /\ [StagingNext]_stagingVars => MirrorInv'
<1> SUFFICES ASSUME MirrorInv, [StagingNext]_stagingVars PROVE MirrorInv'
  OBVIOUS
<1> USE DEF MirrorInv
<1>1. LeafInv' /\ DataInv'
  <2>1. CASE [Next]_vars
    BY <2>1, LeafInvStep, DataInvStep
  <2>2. ASSUME NEW n, NEW file, Commit(n, file)
        PROVE  LeafInv' /\ DataInv'
    <3>1. PICK rows : ImportCommit(rows)
      BY <2>2 DEF Commit
    <3> QED BY <3>1, ImportCommitFacts, OthersKeepLeaves DEF ImportCommit, metaVars
  <2> QED BY <2>1, <2>2, StagingIsServing
<1>2. ASSUME \A u \in UnitKeys : UserInput(units', u) = UserInput(units, u), loaded' = loaded
      PROVE  ImportMirrorsLastCommit'
  BY <1>2, UserCellsHoldImports DEF ImportMirrorsLastCommit, UserInput
<1>3. ASSUME UNCHANGED vars, UNCHANGED loaded
      PROVE  ImportMirrorsLastCommit'
  BY <1>2, <1>3 DEF vars
<1>4. ASSUME NEW batch, DataCells(batch),
             loaded' = [u \in UnitKeys |-> ImportCells(Overwritten(loaded[u], batch, u))]
      PROVE  ImportMirrorsLastCommit'
  <2>1. ASSUME NEW s \in Slices, NEW e \in Entities
        PROVE  ImportCells(units'[s][e]["Input"]) = loaded'[<<s, e>>]
    <3> DEFINE m == units[s][e]["Input"]
    <3>1. units'[s][e]["Input"] = Overwritten(m, batch, <<s, e>>)
      BY <1>4 DEF DataCells, WriteAll, Written, DataInv
    <3>2. <<s, e>> \in UnitKeys
      BY DEF UnitKeys
    <3>3. loaded[<<s, e>>] = ImportCells(m)
      BY <3>2 DEF ImportMirrorsLastCommit
    <3> HIDE DEF m
    <3> QED BY <1>4, <3>1, <3>2, <3>3, BatchOnImports
  <2> QED BY <2>1 DEF ImportMirrorsLastCommit, UnitKeys
<1>5. ASSUME NEW n, NEW file, Commit(n, file)
      PROVE  ImportMirrorsLastCommit'
  <2> DEFINE rows == Unflagged(profiles[n], file)
             planned == {RowUnit(rows[i]) : i \in CleanRows(rows)}
  <2>1. /\ units' = [s \in Slices |-> [e \in Entities |->
                       IF <<s, e>> \in planned
                       THEN [units[s][e] EXCEPT !["Input"] = Loaded(rows, <<s, e>>)]
                       ELSE units[s][e]]]
        /\ loaded' = [u \in UnitKeys |-> IF u \in planned THEN Meant(rows, u) ELSE loaded[u]]
    <3>1. \A u : u \in planned <=> \E i \in CleanRows(rows) : RowUnit(rows[i]) = u
      OBVIOUS
    <3> HIDE DEF rows
    <3> QED BY <1>5, <3>1 DEF Commit, ImportCommit, rows
  <2> HIDE DEF rows, planned
  <2>2. ASSUME NEW s \in Slices, NEW e \in Entities
        PROVE  ImportCells(units'[s][e]["Input"]) = loaded'[<<s, e>>]
    <3>1. <<s, e>> \in UnitKeys
      BY DEF UnitKeys
    <3>2. CASE <<s, e>> \in planned
      <4>1. units'[s][e]["Input"] = Loaded(rows, <<s, e>>)
        BY <2>1, <3>2 DEF DataInv
      <4> QED BY <2>1, <3>1, <3>2, <4>1, LoadedIsMeant
    <3>3. CASE <<s, e>> \notin planned
      <4>1. units'[s][e] = units[s][e] /\ loaded'[<<s, e>>] = loaded[<<s, e>>]
        BY <2>1, <3>1, <3>3
      <4> QED BY <3>1, <4>1 DEF ImportMirrorsLastCommit
    <3> QED BY <3>2, <3>3
  <2> QED BY <2>2 DEF ImportMirrorsLastCommit, UnitKeys
<1>6. ASSUME OtherRequest
      PROVE  ImportMirrorsLastCommit'
  BY <1>2, <1>4, <1>6, OthersKeepUserInput DEF OtherRequest
<1>7. ImportMirrorsLastCommit'
  BY <1>3, <1>5, <1>6 DEF StagingNext, ProfilePost, ProfilePut, ProfileDelete, stagingVars, vars
<1> QED BY <1>1, <1>7

(* Import cells mirror the last commit that had a clean row for the unit   *)
(* and what clients have since written there: a commit leaves nothing of   *)
(* an earlier file, sums the rows of one cell, and no other request of the *)
(* server touches what was imported.                                       *)
THEOREM ImportsAreMirrored == StagingSpec => []ImportMirrorsLastCommit
<1>1. MirrorInv => ImportMirrorsLastCommit
  BY DEF MirrorInv
<1> QED BY <1>1, MirrorInvInit, MirrorInvStep, PTL DEF StagingSpec

-----------------------------------------------------------------------------
(* The server behind the import pipeline.                                  *)

\* The rows of a file can be added up.
LEMMA UnflaggedIsAddable ==
  ASSUME NEW p, NEW file \in Files
  PROVE  Addable(Unflagged(p, file))
<1> DEFINE rows == Transform(p, file)
           rest == {i \in DOMAIN rows : ~rows[i].flagged}
<1>1. file \in Seq(Seq(STRING)) /\ \A x \in DOMAIN Amounts : Amounts[x] \in Int
  BY FilesAssumption
<1>2. IsFiniteSet(DOMAIN file)
  <2>1. DOMAIN file = 1 .. Len(file) /\ Len(file) \in Nat
    BY <1>1
  <2> QED BY <2>1, FS_Interval
<1>3. DOMAIN rows \subseteq DOMAIN file /\ \A i \in DOMAIN rows : rows[i] = Row(p, file[i])
  BY DEF Transform
<1>4. \A rec : Row(p, rec).amount \in Int
  BY <1>1 DEF Row
<1> HIDE DEF rows
<1>5. Unflagged(p, file) = [i \in DOMAIN rows \cap rest |-> rows[i]]
  BY StrictIsIdentity DEF Unflagged, Restricted, rows
<1>6. IsFiniteSet(DOMAIN rows \cap rest)
  BY <1>2, <1>3, FS_Subset
<1> QED BY <1>3, <1>4, <1>5, <1>6 DEF Addable

\* A commit of any such rows keeps what a request of the server keeps.
LEMMA CommitKept ==
  ASSUME IntegrityInv, InputInv, NEW rows, Addable(rows), ImportCommit(rows)
  PROVE  IntegrityInv' /\ InputInv'
<1> USE DEF IntegrityInv
<1>1. UNCHANGED metaVars /\ \E us : status' = Tracked(us, "import")
  BY DEF ImportCommit, TrackedImport
<1>2. LeafInv'
  BY <1>1, OthersKeepLeaves DEF metaVars
<1>3. EntInv' /\ DOMAIN acc' \subseteq Accounts
  BY <1>1 DEF metaVars, EntInv
<1>4. SettingsInv'
  BY <1>1, TrackedKeepsSettings DEF Actions
<1> QED BY <1>2, <1>3, <1>4, CommitFits, CommitKeepsFlow, InputOfCommit

ServingInv == IntegrityInv /\ InputInv /\ DataInv /\ ProcessedAfterImport

LEMMA ServingInvStep ==
  ServingInv /\ [StagingNext]_stagingVars => ServingInv' /\ Frozen /\ Survives
<1> SUFFICES ASSUME ServingInv, [StagingNext]_stagingVars
             PROVE  ServingInv' /\ Frozen /\ Survives
  OBVIOUS
<1> USE DEF ServingInv
<1>1. LeafInv
  BY DEF IntegrityInv
<1>2. CASE [Next]_vars
  BY <1>1, <1>2, IntegrityStep, InputStep, DataInvStep, ProcessedAfterImportStep, EditsKeepInput
<1>3. ASSUME NEW n \in ProfileNames, NEW file \in Files, Commit(n, file)
      PROVE  ServingInv' /\ Frozen /\ Survives
  <2> DEFINE rows == Unflagged(profiles[n], file)
  <2>1. ImportCommit(rows) /\ Addable(rows)
    BY <1>3, UnflaggedIsAddable DEF Commit
  <2> HIDE DEF rows
  <2>2. IntegrityInv' /\ InputInv' /\ DataInv' /\ ProcessedAfterImport'
    BY <2>1, CommitKept, ImportCommitFacts, CommitIsSeen
  <2>3. Frozen
    BY <2>1, ImportCommitFacts DEF Frozen
  <2>4. Survives
    BY <2>1 DEF ImportCommit, Survives
  <2> QED BY <2>2, <2>3, <2>4
<1> QED BY <1>2, <1>3, StagingIsServing

(* What the handlers promise of each other holds when imports are files    *)
(* that profiles transform, whatever the profile and the file: names stay  *)
(* good, snapshots savable, formulas at leaves and Calc cells true to      *)
(* them, no unit counts as processed on an import it has not seen, and     *)
(* neither a commit nor an edit changes certified or other users' data.    *)
THEOREM ImportsKeepTheServersPromises ==
  StagingSpec => /\ [](/\ TypeOK /\ NoDanglingRefs /\ SnapshotSavable
                       /\ StoredFormulasAtLeaves /\ ProcessedAfterImport
                       /\ HistoryIndependent /\ CalcConsistent)
                 /\ CertifiedFrozen /\ UserDataSurvivesEdits
<1> DEFINE Promises == /\ TypeOK /\ NoDanglingRefs /\ SnapshotSavable
                       /\ StoredFormulasAtLeaves /\ ProcessedAfterImport
                       /\ HistoryIndependent /\ CalcConsistent
<1>1. StagingInit => ServingInv
  <2>1. Init => InputInv
    BY DEF Init, InputInv, NoUnit, Stages, Empty
  <2>2. Init => ProcessedAfterImport
    BY DEF Init, ProcessedAfterImport, StatusOf
  <2> QED BY <2>1, <2>2, IntegrityInit, DataInvInit DEF StagingInit, ServingInv
<1>2. ServingInv => Promises
  <2>1. IntegrityInv => StoredFormulasAtLeaves
    BY DEF IntegrityInv, LeafInv
  <2> QED BY <2>1, NamesAreGood, StagesAreSavable, ShapeIsRight, RunForgetsHistory, CalcAgrees
          DEF ServingInv
<1>3. ServingInv /\ [StagingNext]_stagingVars => ServingInv' /\ [Frozen]_vars /\ [Survives]_vars
  BY ServingInvStep
<1>4. (CertifiedFrozen <=> [][Frozen]_vars) /\ (UserDataSurvivesEdits <=> [][Survives]_vars)
  BY DEF CertifiedFrozen, UserDataSurvivesEdits, Frozen, Survives
<1> HIDE DEF Promises
<1>5. StagingSpec => []Promises /\ CertifiedFrozen /\ UserDataSurvivesEdits
  BY <1>1, <1>2, <1>3, <1>4, PTL DEF StagingSpec
<1> QED BY <1>5 DEF Promises

-----------------------------------------------------------------------------
(* Queries.  Below an account there is no way back to it, so its subtree   *)
(* is summed along ways up the tree (EngineProofs).                        *)

LEMMA AccountTreeKept ==
  ASSUME AccInv, DOMAIN acc \subseteq Accounts, Acyclic(acc), [Next]_vars
  PROVE  Acyclic(acc')
<1>1. NoParent \notin DOMAIN acc /\ IsFiniteSet(DOMAIN acc) /\ Closed(acc)
  BY MetadataAssumption DEF AccInv
<1>2. CASE AccountStep
  <2>1. ASSUME NEW x \in EditAccounts, NEW p, NEW f, NEW d, AddAccount(x, p, f, d)
        PROVE  Acyclic(acc')
    <3>1. /\ x \notin DOMAIN acc /\ (p = NoParent \/ p \in DOMAIN acc)
          /\ acc' = [y \in DOMAIN acc \cup {x} |-> IF y = x THEN p ELSE acc[y]]
      BY <2>1 DEF AddAccount, CanAdd, Has, Added
    <3>2. x # NoParent
      BY MetadataAssumption
    <3>3. p # x
      BY <3>1, <3>2
    <3> QED BY <1>1, <3>1, <3>2, <3>3, AdditionIsAcyclic
  <2>2. ASSUME NEW x, NEW p, NEW f, NEW d, UpdateAccount(x, p, f, d)
        PROVE  Acyclic(acc')
    <3>1. x \in DOMAIN acc /\ acc' = [acc EXCEPT ![x] = p] /\ (p # acc[x] => CanMove(acc, x, p))
      BY <2>2 DEF UpdateAccount, Moved, Has
    <3>2. CASE p = acc[x]
      <4>1. [acc EXCEPT ![x] = p] = [y \in DOMAIN acc |-> acc[y]]
        BY <3>2
      <4>2. DOMAIN acc \in SUBSET DOMAIN acc
        OBVIOUS
      <4> QED BY <3>1, <4>1, <4>2, RemovalIsAcyclic
    <3>3. CASE p # acc[x]
      <4>1. p = NoParent \/ (p \in DOMAIN acc /\ x \notin PathToRoot(acc, p))
        BY <3>1, <3>3 DEF CanMove, Has, IsAncestor
      <4> QED BY <1>1, <3>1, <4>1, MoveIsAcyclic
    <3> QED BY <3>2, <3>3
  <2>3. ASSUME NEW x, NEW recursive, DeleteAccount(x, recursive)
        PROVE  Acyclic(acc')
    <3> DEFINE S == DOMAIN acc \cap (DOMAIN acc \ Subtree(acc, x))
    <3>1. acc' = [y \in S |-> acc[y]]
      BY <2>3 DEF DeleteAccount, Restricted
    <3>2. S \in SUBSET DOMAIN acc
      OBVIOUS
    <3> HIDE DEF S
    <3> QED BY <3>1, <3>2, RemovalIsAcyclic
  <2> QED BY <1>2, <2>1, <2>2, <2>3 DEF AccountStep
<1>3. CASE acc' = acc
  BY <1>3
<1>4. CASE DataStep
  BY <1>3, <1>4 DEF DataStep, DataCells, ImportCommit, metaVars
<1>5. CASE FlowStep
  BY <1>3, <1>5 DEF FlowStep, ManualProcess, WorkflowAction, metaVars
<1>6. CASE EntityStep
  BY <1>3, <1>6 DEF EntityStep, AddEntity, MoveEntity, DeleteEntity
<1>7. CASE FormulaStep
  BY <1>3, <1>7 DEF FormulaStep, FormulaPut
<1>8. CASE ScenarioStep
  BY <1>3, <1>8 DEF ScenarioStep, AddScenario, DeleteScenario
<1>9. CASE RatesStep
  BY <1>3, <1>9 DEF RatesStep, RatesPut
<1>10. CASE UNCHANGED vars
  BY <1>3, <1>10 DEF vars
<1> QED BY <1>2, <1>4, <1>5, <1>6, <1>7, <1>8, <1>9, <1>10 DEF Next

\* What the query engine asks of the state it reads.
QueryInv == IntegrityInv /\ Acyclic(acc)

LEMMA QueryInvAlways == Spec => []QueryInv
<1>1. Init => QueryInv
  BY IntegrityInit, MetadataAssumption DEF QueryInv, Init
<1>2. QueryInv /\ [Next]_vars => QueryInv'
  BY IntegrityStep, AccountTreeKept DEF QueryInv, IntegrityInv, LeafInv
<1> QED BY <1>1, <1>2, PTL DEF Spec

LEMMA QueriesMayRead ==
  QueryInv => /\ Readable /\ Coordinated /\ AccountTree(acc) /\ LinearExprs
              /\ DOMAIN ent \subseteq Entities /\ NoParent \notin Entities
<1> SUFFICES ASSUME QueryInv
             PROVE  /\ Readable /\ Coordinated /\ AccountTree(acc) /\ LinearExprs
                    /\ DOMAIN ent \subseteq Entities /\ NoParent \notin Entities
  OBVIOUS
<1> USE DEF QueryInv, IntegrityInv
<1>1. AccountTree(acc) /\ DOMAIN ent \subseteq Entities /\ NoParent \notin Entities
  BY MetadataAssumption DEF AccountTree, LeafInv, AccInv, EntInv
<1>2. ASSUME NEW s \in Slices, NEW e \in Entities, NEW st \in Stages
      PROVE  /\ IsFiniteSet(DOMAIN units[s][e][st]) /\ Whole(units[s][e][st])
             /\ DOMAIN units[s][e][st] \subseteq Coords
  <2>1. Fits(units[s][e][st], Named(s, e))
    BY DEF CellsInv
  <2>2. Named(s, e) \subseteq Coords
    BY DEF Named, Known
  <2>3. IsFiniteSet(Named(s, e))
    BY KnownIsFinite, FS_EmptySet DEF Named, EntInv, LeafInv, AccInv
  <2> QED BY <2>1, <2>2, <2>3, FS_Subset DEF Fits, Whole
<1>3. LinearExprs
  BY DEF LinearExprs, SettingsInv
<1> QED BY <1>1, <1>2, <1>3 DEF Readable, Coordinated

(* SPEC.md section 2: whatever tree the accounts form and whatever the     *)
(* stages hold, a query of a member answers with what is stored at the     *)
(* member and the weighted sum of what queries of its children answer: in  *)
(* each month that is read, whatever the types, and over the period itself *)
(* where the children aggregate over time as the member does.  Where the   *)
(* member or a child is dynamic the code sums stored cells above it and    *)
(* answers with a formula at it, and nothing is claimed.                   *)
THEOREM ParentsAreWeightedSums == Spec => []ParentIsWeightedSum
  BY QueryInvAlways, QueriesMayRead, ParentsAgree, PTL

(* A flow of a quarter or a year is the sum of its parts, the year to date *)
(* grows by each month, and a balance is that of the last part, in any     *)
(* cube and at any point of view whose account is stored, or is dynamic    *)
(* with a formula that sums stored flows, or stored balances, and no       *)
(* constant.  Of other dynamic accounts it is false, and not claimed.      *)
THEOREM PeriodsAlwaysAgree == Spec => []PeriodsAgree
  BY QueryInvAlways, QueriesMayRead, QueriesAgree, PTL

LEMMA CalcIsReadBack == QueryInv => StoredFormulaQueried
  BY QueriesMayRead, CalcAgrees, FormulasReadBack DEF QueryInv

(* In a slice that is consolidated the query engine answers for a Calc     *)
(* cell what its formula makes of the answers for the accounts it refers   *)
(* to, none of them dynamic: consolidation and queries weigh an account    *)
(* tree alike.  (Of a dynamic account consolidation reads stored cells and *)
(* a query the formula.)                                                   *)
THEOREM FormulasAreReadBack == Spec => []StoredFormulaQueried
  BY CalcIsReadBack, QueryInvAlways, PTL

-----------------------------------------------------------------------------
(* Consolidation.  A run of Process has the amounts and the names that the *)
(* algebra of shares and eliminations asks for (EngineProofs).             *)

LEMMA ConsolidatesOneTree ==
  IntegrityInv => /\ EntityTree(ent)
                  /\ \A s \in Slices : ~ProcessFails(MetaAt(s)) => RunFits(Processed(s))
<1> SUFFICES ASSUME IntegrityInv
             PROVE  EntityTree(ent) /\ \A s \in Slices : RunFits(Processed(s))
  OBVIOUS
<1> USE DEF IntegrityInv
<1>1. EntityTree(ent)
  BY MetadataAssumption DEF EntityTree, EntInv
<1>2. ASSUME NEW s \in Slices
      PROVE  RunFits(Processed(s))
  <2> DEFINE us == Processed(s)
  <2>1. ASSUME NEW e \in Entities, NEW st \in Stages
        PROVE  /\ IsFiniteSet(DOMAIN us[e][st]) /\ DOMAIN us[e][st] \subseteq Coords /\ Whole(us[e][st])
               /\ ~Has(ent, e) => DOMAIN us[e][st] = {}
    <3>1. Fits(us[e][st], Named(s, e))
      BY RunNames DEF Processed
    <3>2. Named(s, e) \subseteq Coords /\ (~Has(ent, e) => Named(s, e) = {})
      BY DEF Named, Known
    <3>3. IsFiniteSet(Named(s, e))
      BY KnownIsFinite, FS_EmptySet DEF Named
    <3> HIDE DEF us
    <3> QED BY <3>1, <3>2, <3>3, FS_Subset DEF Fits
  <2> HIDE DEF us
  <2>2. RunFits(us)
    BY <2>1 DEF RunFits
  <2> QED BY <2>2 DEF us
<1> QED BY <1>1, <1>2

LEMMA ExactRunsConsolidate == IntegrityInv => (AmountsAreExact => OwnershipWeighted /\ EliminationNets)
<1> SUFFICES ASSUME IntegrityInv, AmountsAreExact PROVE OwnershipWeighted /\ EliminationNets
  OBVIOUS
<1>1. EntityTree(ent) /\ \A s \in Slices : ~ProcessFails(MetaAt(s)) => RunFits(Processed(s))
  BY ConsolidatesOneTree
<1> QED BY <1>1, OwnershipWeighs, EliminationsNet

(* consolidate (README.md, ownership-weighted consolidation): wherever the *)
(* percentages divide the amounts and none is too large to be written, each *)
(* entity holds its share, compounded along the way, of every Translated   *)
(* and Elimination cell below it, in any entity tree.  Rounding at each    *)
(* level and a skipped amount are what the premise leaves out.             *)
THEOREM SharesAreCompounded == Spec => [](AmountsAreExact => OwnershipWeighted)
  BY Integrity, ExactRunsConsolidate, PTL

(* eliminate: under the same premise, what the entities below a group hold *)
(* of an intercompany account with one partner nets to nothing in the      *)
(* group, where the ancestor each of them first shares with the partner    *)
(* wholly owns it.                                                         *)
THEOREM GroupsOweThemselvesNothing == Spec => [](AmountsAreExact => EliminationNets)
  BY Integrity, ExactRunsConsolidate, PTL

\* What a consolidated query asks of the state.
LEMMA ExactAnswersAreShares == QueryInv /\ InputInv => (AmountsAreExact => ConsolidatedQuery)
<1> SUFFICES ASSUME QueryInv, InputInv, AmountsAreExact PROVE ConsolidatedQuery
  OBVIOUS
<1>1. Readable /\ AccountTree(acc)
  BY QueriesMayRead
<1>2. EntityTree(ent) /\ \A s \in Slices : ~ProcessFails(MetaAt(s)) => RunFits(Processed(s))
  BY ConsolidatesOneTree DEF QueryInv
<1>3. ASSUME NEW s \in Slices, NEW e \in Entities
      PROVE  Entered(units[s][e]["Input"])
  <2>1. Fits(units[s][e]["Input"], Named(s, e)) /\ DOMAIN units[s][e]["Input"] \subseteq InputCoords
    BY DEF QueryInv, IntegrityInv, CellsInv, InputInv, Stages
  <2>2. \A c \in InputCoords : c.origin # "Elim"
    BY DEF InputCoords
  <2> QED BY <2>1, <2>2 DEF Fits, Entered
<1> QED BY <1>1, <1>2, <1>3, ConsolidatedAgrees

(* stageCells and consolidate: under the same premise, where all slices    *)
(* read are consolidated, a consolidated query of an entity answers with   *)
(* its share of what Translated and Elimination queries of its subtree     *)
(* answer, over any months, origins, partners and accounts that are not    *)
(* dynamic; for a parent whose own cells its children's cancel out the     *)
(* fallback answers instead, and nothing is claimed.                       *)
THEOREM ConsolidatedAnswersAreShares == Spec => [](AmountsAreExact => ConsolidatedQuery)
  BY QueryInvAlways, InputAlways, ExactAnswersAreShares, PTL

-----------------------------------------------------------------------------
(* Rules.  The scan of applyRules over the prefix rules ends with the last *)
(* of the longest that match.                                              *)

PrefixesOf(rules, d, raw) == {i \in RulesOf(rules, d, "prefix") : HasPrefix(raw, Stem(rules[i].src))}

\* What the scan holds after rule k, when it held b before.
Kept(rules, fits, k, b) ==
  IF k \in fits /\ (b = 0 \/ StemLength(rules[k]) >= StemLength(rules[b])) THEN k ELSE b

Scan(rules, fits, n, f) ==
  f = [k \in 0 .. n |-> IF k = 0 THEN 0 ELSE Kept(rules, fits, k, f[k - 1])]

LEMMA ScanExists ==
  ASSUME NEW rules, NEW fits, NEW N \in Nat
  PROVE  \E f : Scan(rules, fits, N, f)
<1> DEFINE T == {n \in Nat : ~ \E f : Scan(rules, fits, n, f)}
<1> SUFFICES ASSUME T # {} PROVE FALSE
  OBVIOUS
<1>1. PICK m \in T : \A n \in T : m <= n
  <2> HIDE DEF T
  <2> QED BY LeastNatural DEF T
<1>2. CASE m = 0
  <2>1. Scan(rules, fits, 0, [k \in 0 .. 0 |-> 0])
    BY DEF Scan
  <2> QED BY <1>1, <1>2, <2>1
<1>3. CASE m # 0
  <2>1. m \in Nat /\ m - 1 \in Nat /\ m - 1 \notin T
    BY <1>1, <1>3
  <2>2. PICK g : Scan(rules, fits, m - 1, g)
    BY <2>1
  <2> DEFINE f == [k \in 0 .. m |-> IF k = m THEN Kept(rules, fits, m, g[m - 1]) ELSE g[k]]
  <2>3. ASSUME NEW k \in 0 .. m
        PROVE  f[k] = IF k = 0 THEN 0 ELSE Kept(rules, fits, k, f[k - 1])
    <3>1. CASE k = m
      <4>1. f[k - 1] = g[m - 1] /\ f[k] = Kept(rules, fits, m, g[m - 1])
        BY <2>1, <3>1
      <4> QED BY <4>1, <1>3, <3>1
    <3>2. CASE k # m
      <4>1. k \in 0 .. m - 1 /\ f[k] = g[k]
        BY <2>1, <3>2
      <4>2. k # 0 => k - 1 \in 0 .. m - 1 /\ f[k - 1] = g[k - 1]
        BY <2>1, <4>1
      <4>3. g[k] = IF k = 0 THEN 0 ELSE Kept(rules, fits, k, g[k - 1])
        BY <2>2, <4>1 DEF Scan
      <4> QED BY <4>1, <4>2, <4>3
    <3> QED BY <3>1, <3>2
  <2>4. f = [k \in 0 .. m |-> f[k]]
    OBVIOUS
  <2> HIDE DEF f
  <2>5. Scan(rules, fits, m, f)
    BY <2>3, <2>4 DEF Scan
  <2> QED BY <1>1, <2>5
<1> QED BY <1>2, <1>3

\* b is the last of the longest matching prefixes among the first n rules, or 0.
Longest(rules, fits, n, b) ==
  /\ b = 0 => fits \cap (1 .. n) = {}
  /\ b # 0 => /\ b \in fits \cap (1 .. n)
              /\ \A j \in fits \cap (1 .. n) :
                   \/ StemLength(rules[j]) < StemLength(rules[b])
                   \/ StemLength(rules[j]) = StemLength(rules[b]) /\ j <= b

LEMMA LongestKept ==
  ASSUME NEW rules, NEW fits, NEW n \in Nat \ {0}, \A j \in fits : StemLength(rules[j]) \in Nat,
         NEW b, Longest(rules, fits, n - 1, b)
  PROVE  Longest(rules, fits, n, Kept(rules, fits, n, b))
<1> DEFINE S == fits \cap (1 .. n)
           R == fits \cap (1 .. n - 1)
           c == Kept(rules, fits, n, b)
<1>1. /\ n \in fits => S = R \cup {n}
      /\ n \notin fits => S = R
  OBVIOUS
<1>2. \A j \in S : j \in 1 .. n /\ StemLength(rules[j]) \in Nat
  OBVIOUS
<1>3. \A j \in R : j \in 1 .. n - 1 /\ j < n /\ j # 0
  OBVIOUS
<1>4. CASE c = b
  <2>1. n \in fits => b # 0 /\ StemLength(rules[n]) < StemLength(rules[b])
    <3> SUFFICES ASSUME n \in fits, c = b PROVE b # 0 /\ StemLength(rules[n]) < StemLength(rules[b])
      BY <1>4
    <3>1. b # n
      BY <1>3 DEF Longest
    <3>2. b # 0 /\ ~(StemLength(rules[n]) >= StemLength(rules[b]))
      BY <3>1 DEF Kept
    <3>3. b \in R
      BY <3>2 DEF Longest
    <3> HIDE DEF c
    <3> QED BY <1>1, <1>2, <3>2, <3>3
  <2> QED BY <1>1, <1>4, <2>1 DEF Longest
<1>5. CASE c # b
  <2>1. c = n /\ n \in fits /\ (b = 0 \/ StemLength(rules[n]) >= StemLength(rules[b]))
    BY <1>5 DEF Kept
  <2> HIDE DEF c
  <2>2. ASSUME NEW j \in R
        PROVE  StemLength(rules[j]) <= StemLength(rules[n]) /\ j <= n
    <3>1. b # 0 /\ b \in R /\ StemLength(rules[j]) <= StemLength(rules[b])
      BY <1>1, <1>2 DEF Longest
    <3>2. StemLength(rules[b]) <= StemLength(rules[n])
      BY <1>1, <1>2, <2>1, <3>1
    <3> QED BY <1>1, <1>2, <1>3, <2>1, <3>1, <3>2
  <2>3. \A j \in S : \/ StemLength(rules[j]) < StemLength(rules[n])
                     \/ StemLength(rules[j]) = StemLength(rules[n]) /\ j <= n
    <3> HIDE DEF R
    <3> QED BY <1>1, <1>2, <2>1, <2>2
  <2>4. c # 0 /\ c \in S
    BY <2>1
  <2>5. Longest(rules, fits, n, n)
    BY <2>1, <2>3, <2>4 DEF Longest
  <2> QED BY <2>1, <2>5 DEF c
<1> QED BY <1>4, <1>5

LEMMA BestPrefixIsLongest ==
  ASSUME NEW rules, NEW N \in Nat, N = Len(rules), NEW d, NEW raw,
         \A j \in PrefixesOf(rules, d, raw) : StemLength(rules[j]) \in Nat
  PROVE  Longest(rules, PrefixesOf(rules, d, raw), N, BestPrefix(rules, d, raw))
<1> DEFINE fits == PrefixesOf(rules, d, raw)
           best == CHOOSE f : Scan(rules, fits, N, f)
<1>1. Scan(rules, fits, N, best)
  BY ScanExists
<1>2. BestPrefix(rules, d, raw) = best[N]
  BY DEF BestPrefix, Scan, Kept, PrefixesOf
<1> HIDE DEF fits, best
<1>3. best[0] = 0 /\ \A n \in 1 .. N : best[n] = Kept(rules, fits, n, best[n - 1])
  BY <1>1 DEF Scan
<1> DEFINE T == {n \in 0 .. N : ~Longest(rules, fits, n, best[n])}
<1>4. T = {}
  <2> SUFFICES ASSUME T # {} PROVE FALSE
    OBVIOUS
  <2>1. PICK m \in T : \A n \in T : m <= n
    <3>1. T \subseteq Nat
      OBVIOUS
    <3> HIDE DEF T
    <3> QED BY <3>1, LeastNatural
  <2>2. m \in 0 .. N /\ ~Longest(rules, fits, m, best[m])
    OBVIOUS
  <2>3. m # 0
    BY <1>3, <2>2 DEF Longest
  <2>4. m - 1 \in 0 .. N /\ m - 1 \notin T /\ m \in Nat \ {0} /\ m \in 1 .. N
    BY <2>1, <2>2, <2>3
  <2>5. Longest(rules, fits, m - 1, best[m - 1])
    BY <2>4
  <2>6. \A j \in fits : StemLength(rules[j]) \in Nat
    BY DEF fits
  <2>7. Longest(rules, fits, m, Kept(rules, fits, m, best[m - 1]))
    BY <2>4, <2>5, <2>6, LongestKept
  <2> QED BY <1>3, <2>2, <2>4, <2>7
<1>5. N \in 0 .. N
  OBVIOUS
<1> HIDE DEF T
<1>6. N \notin T
  BY <1>4
<1> QED BY <1>2, <1>5, <1>6 DEF T, fits


\* The last rule of a set of rules.
LEMMA LatestFacts ==
  ASSUME NEW N \in Nat, NEW S, S \subseteq 1 .. N, S # {}
  PROVE  LatestOf(S) \in S /\ \A j \in S : j <= LatestOf(S)
BY GreatestOfInterval DEF LatestOf

\* The rule m fits closest, and of those that do is the last.
Closest(fit, N, m) == /\ m \in 1 .. N /\ fit[m] > -2
                      /\ \A j \in 1 .. N : fit[j] < fit[m] \/ (fit[j] = fit[m] /\ j <= m)

LEMMA ClosestIsOne ==
  ASSUME NEW N \in Nat, NEW fit, \A i \in 1 .. N : fit[i] \in Int, NEW m, Closest(fit, N, m)
  PROVE  \A i : Closest(fit, N, i) => i = m
BY DEF Closest

LEMMA ClosestIsTaken == ASSUME NEW rules \in RulesInUse PROVE ClosestWins(rules)
<1> SUFFICES ASSUME NEW d \in Dims, NEW raw \in RawTexts
             PROVE  LET fit(i)  == Fit(rules[i], d, raw)
                        closest == {i \in DOMAIN rules : fit(i) > -2 /\ \A j \in DOMAIN rules :
                                      fit(j) < fit(i) \/ (fit(j) = fit(i) /\ j <= i)}
                    IN  ApplyRules(rules, d, raw)
                          = IF closest = {} THEN raw ELSE rules[CHOOSE i \in closest : TRUE].target
  BY DEF ClosestWins
<1> DEFINE N       == Len(rules)
           fit     == [i \in 1 .. N |-> Fit(rules[i], d, raw)]
           closest == {i \in 1 .. N : Closest(fit, N, i)}
           E       == {i \in RulesOf(rules, d, "exact") : rules[i].src = raw}
           P       == PrefixesOf(rules, d, raw)
           D       == RulesOf(rules, d, "default")
           best    == BestPrefix(rules, d, raw)
<1>1. N \in Nat /\ DOMAIN rules = 1 .. N
  BY TextsAssumption
<1>2. ASSUME NEW i \in 1 .. N
      PROVE  /\ Length(raw) \in Nat
             /\ i \in P => StemLength(rules[i]) \in 0 .. Length(raw)
  <2>1. i \in P => HasPrefix(raw, Stem(rules[i].src))
    BY DEF PrefixesOf
  <2>2. /\ Length(raw) \in Nat /\ StemLength(rules[i]) \in Nat
        /\ HasPrefix(raw, Stem(rules[i].src)) => StemLength(rules[i]) <= Length(raw)
    BY <1>1, TextsAssumption DEF StemLength
  <2> HIDE DEF P, N
  <2> QED BY <2>1, <2>2
<1>3. E \subseteq 1 .. N /\ P \subseteq 1 .. N /\ D \subseteq 1 .. N
  BY <1>1 DEF RulesOf, PrefixesOf
<1>4. ASSUME NEW i \in 1 .. N
      PROVE  /\ i \in E => fit[i] = Length(raw) + 1
             /\ i \in P => fit[i] = StemLength(rules[i])
             /\ i \in D => fit[i] = -1
             /\ i \notin E \cup P \cup D => fit[i] = -2
  <2>1. i \in DOMAIN rules /\ fit[i] = Fit(rules[i], d, raw)
    BY <1>1
  <2>2. /\ i \in E <=> rules[i].dim = d /\ Kind(rules[i]) = "exact" /\ rules[i].src = raw
        /\ i \in P <=> rules[i].dim = d /\ Kind(rules[i]) = "prefix" /\ HasPrefix(raw, Stem(rules[i].src))
        /\ i \in D <=> rules[i].dim = d /\ Kind(rules[i]) = "default"
    BY <2>1 DEF RulesOf, PrefixesOf
  <2> HIDE DEF E, P, D, fit
  <2>3. i \in E => fit[i] = Length(raw) + 1
    BY <2>1, <2>2 DEF Fit
  <2>4. i \in P => fit[i] = StemLength(rules[i])
    BY <2>1, <2>2 DEF Fit
  <2>5. i \in D => fit[i] = -1
    BY <2>1, <2>2 DEF Fit
  <2>6. i \notin E \cup P \cup D => fit[i] = -2
    BY <2>1, <2>2 DEF Fit
  <2> QED BY <2>3, <2>4, <2>5, <2>6
<1>5. ApplyRules(rules, d, raw) = IF E # {}      THEN rules[LatestOf(E)].target
                                  ELSE IF best # 0 THEN rules[best].target
                                  ELSE IF D # {} THEN rules[LatestOf(D)].target
                                  ELSE raw
  BY DEF ApplyRules
<1>6. Longest(rules, P, N, best)
  <2>1. \A j \in P : StemLength(rules[j]) \in Nat
    <3> HIDE DEF P, N
    <3> QED BY <1>2, <1>3
  <2> QED BY <1>1, <2>1, BestPrefixIsLongest
<1>7. SUFFICES ApplyRules(rules, d, raw)
                 = IF closest = {} THEN raw ELSE rules[CHOOSE i \in closest : TRUE].target
  <2>1. closest = {i \in DOMAIN rules : Fit(rules[i], d, raw) > -2 /\ \A j \in DOMAIN rules :
                     \/ Fit(rules[j], d, raw) < Fit(rules[i], d, raw)
                     \/ Fit(rules[j], d, raw) = Fit(rules[i], d, raw) /\ j <= i}
    BY <1>1 DEF Closest
  <2> QED BY <1>7, <2>1
<1> HIDE DEF N, fit, E, P, D, best
<1>8. \A i \in 1 .. N : fit[i] \in Int
  <2> SUFFICES ASSUME NEW i \in 1 .. N PROVE fit[i] \in Int
    OBVIOUS
  <2> QED BY <1>2, <1>4
<1>9. ASSUME NEW m, Closest(fit, N, m)
      PROVE  closest # {} /\ (CHOOSE i \in closest : TRUE) = m
  <2>1. m \in closest /\ \A i \in closest : i = m
    BY <1>1, <1>8, <1>9, ClosestIsOne DEF Closest
  <2> HIDE DEF closest
  <2> QED BY <2>1
<1>10. CASE E # {}
  <2> DEFINE m == LatestOf(E)
  <2>1. m \in E /\ \A j \in E : j <= m
    BY <1>1, <1>3, <1>10, LatestFacts
  <2> HIDE DEF m
  <2>2. Closest(fit, N, m)
    <3>1. ASSUME NEW j \in 1 .. N PROVE fit[j] < fit[m] \/ (fit[j] = fit[m] /\ j <= m)
      BY <1>2, <1>3, <1>4, <2>1
    <3>2. m \in 1 .. N /\ fit[m] > -2
      BY <1>2, <1>3, <1>4, <2>1
    <3> QED BY <3>1, <3>2 DEF Closest
  <2>3. ApplyRules(rules, d, raw) = rules[m].target
    BY <1>5, <1>10 DEF m
  <2> QED BY <1>9, <2>2, <2>3
<1>11. CASE E = {} /\ best # 0
  <2> DEFINE m == best
  <2>1. m \in P /\ \A j \in P : \/ StemLength(rules[j]) < StemLength(rules[m])
                                \/ StemLength(rules[j]) = StemLength(rules[m]) /\ j <= m
    BY <1>3, <1>6, <1>11 DEF Longest
  <2>2. ApplyRules(rules, d, raw) = rules[m].target
    BY <1>5, <1>11
  <2> HIDE DEF m
  <2>3. Closest(fit, N, m)
    <3>1. m \in 1 .. N /\ fit[m] = StemLength(rules[m]) /\ fit[m] \in Int /\ fit[m] >= 0
      BY <1>2, <1>3, <1>4, <2>1
    <3>2. ASSUME NEW j \in 1 .. N PROVE fit[j] < fit[m] \/ (fit[j] = fit[m] /\ j <= m)
      <4>1. CASE j \in P
        BY <1>4, <2>1, <3>1, <4>1
      <4>2. CASE j \notin P
        <5>1. fit[j] = -1 \/ fit[j] = -2
          BY <1>4, <1>11, <4>2
        <5> QED BY <3>1, <5>1
      <4> QED BY <4>1, <4>2
    <3>3. fit[m] > -2
      BY <3>1
    <3> QED BY <3>1, <3>2, <3>3 DEF Closest
  <2> QED BY <1>9, <2>2, <2>3
<1>12. P = {} \/ best # 0
  BY <1>3, <1>6 DEF Longest
<1>13. CASE E = {} /\ best = 0 /\ D # {}
  <2> DEFINE m == LatestOf(D)
  <2>1. m \in D /\ \A j \in D : j <= m
    BY <1>1, <1>3, <1>13, LatestFacts
  <2> HIDE DEF m
  <2>2. Closest(fit, N, m)
    <3>1. m \in 1 .. N /\ fit[m] = -1
      BY <1>3, <1>4, <2>1
    <3>2. ASSUME NEW j \in 1 .. N PROVE fit[j] < fit[m] \/ (fit[j] = fit[m] /\ j <= m)
      BY <1>4, <1>12, <1>13, <2>1, <3>1
    <3> QED BY <3>1, <3>2 DEF Closest
  <2>3. ApplyRules(rules, d, raw) = rules[m].target
    BY <1>5, <1>13 DEF m
  <2> QED BY <1>9, <2>2, <2>3
<1>14. CASE E = {} /\ best = 0 /\ D = {}
  <2>1. \A i \in 1 .. N : fit[i] = -2
    BY <1>4, <1>12, <1>14
  <2>2. closest = {}
    BY <2>1 DEF Closest
  <2> QED BY <1>5, <1>14, <2>2
<1> QED BY <1>10, <1>11, <1>13, <1>14

\* A profile is one a client has sent.
ProfilesInv == \A n \in DOMAIN profiles : profiles[n] \in ProfileTexts

LEMMA ProfilesAlways == StagingSpec => []ProfilesInv
<1>1. StagingInit => ProfilesInv
  BY DEF StagingInit, ProfilesInv
<1>2. ProfilesInv /\ [StagingNext]_stagingVars => ProfilesInv'
  <2> SUFFICES ASSUME ProfilesInv, [StagingNext]_stagingVars PROVE ProfilesInv'
    OBVIOUS
  <2>1. ASSUME NEW n, NEW p \in ProfileTexts, profiles' = WithProfile(n, p)
        PROVE  ProfilesInv'
    BY <2>1 DEF ProfilesInv, WithProfile
  <2>2. ASSUME NEW n, ProfileDelete(n)
        PROVE  ProfilesInv'
    BY <2>2 DEF ProfilesInv, ProfileDelete, Restricted
  <2>3. ASSUME profiles' = profiles PROVE ProfilesInv'
    BY <2>3 DEF ProfilesInv
  <2> QED BY <2>1, <2>2, <2>3 DEF StagingNext, ProfilePost, ProfilePut, Commit, OtherRequest, stagingVars
<1> QED BY <1>1, <1>2, PTL DEF StagingSpec

LEMMA AllRulesAreTaken == ProfilesInv => RulePrecedence
<1>1. \A rules \in RulesInUse : ClosestWins(rules)
  BY ClosestIsTaken
<1> QED BY <1>1 DEF RulePrecedence, ClosestWinsInAll, ProfilesInv, RulesInUse

(* applyRules (SPEC.md section 7): whatever rules a profile has and in     *)
(* whatever order, an exact rule wins, then the longest prefix, then the   *)
(* default, of equally close ones the last, and a value that none fits     *)
(* passes through.                                                         *)
THEOREM RulesPickTheClosest == StagingSpec => []RulePrecedence
  BY ProfilesAlways, AllRulesAreTaken, PTL

(* The cross product of nested axes: a grid of two row levels is the stack *)
(* of the grids of its inner level, one per header of the outer, whatever  *)
(* members there are, wherever they hang, and also where two levels speak  *)
(* of one dimension.                                                       *)
THEOREM NestedGridsAreStacks == Spec => []NestedGrid
<1>1. QueryInv => NestedGrid
  <2> SUFFICES ASSUME QueryInv PROVE Walkable
    BY GridsNest
  <2>1. /\ IsFiniteSet(DOMAIN ent) /\ Acyclic(ent)
        /\ IsFiniteSet(DOMAIN acc) /\ Acyclic(acc)
    BY DEF QueryInv, IntegrityInv, LeafInv, AccInv, EntInv
  <2> QED BY <2>1, AllWalkable
<1> QED BY <1>1, QueryInvAlways, PTL
=============================================================================
