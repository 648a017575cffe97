\* Three requests after the seed: edits that a consolidation sees, or edits
\* that none has seen.
SPECIFICATION SeedSpec
CONSTANTS
  Entities <- MCEntities
  Accounts <- MCAccounts
  ICAccounts <- DemoICAccounts
  AccountWeight <- DemoWeight
  OwnershipPct <- DemoPct
  AccountType <- MCType
  Currency <- DemoCurrency
  GroupCurrency = "USD"
  Largest = 1000000
  Slices <- MCSlices
  Writes <- MCWrites
  MaxBatch = 1
  Rows = {}
  MaxRows = 1
  Exprs <- MCExprs
  RateLists <- MCRateLists
  InitEnt <- DemoEnt
  InitAcc <- MCAcc
  InitExpr <- DemoFormulas
  InitRates <- MCRates
  EditEntities = {"France"}
  EditAccounts = {}
  EditScenarios = {}
  FormulaTargets = {"Cash"}
  FlowEntities = {}
  Years = {2025}
  Points <- MCPoints
  Grids <- MCGrids
  MaxRequests = 3
INVARIANTS ParentIsWeightedSum PeriodsAgree StoredFormulaQueried ConsolidatedQuery NestedGrid
CHECK_DEADLOCK FALSE
